---- MODULE Spec2Model ----
(***************************************************************************)
(* Coordinate search engine of the search widget: sanitizer, numeric       *)
(* normalizer, parser, axis-order resolver, projection detector, bounds    *)
(* validator, asynchronous transformer (memoized projection-module load)   *)
(* and the search sequencer (searchCoordinatesInternal).                   *)
(*                                                                         *)
(* Text is a sequence of one-character strings.  A number is a record      *)
(* [sgn, ip, fp]: sign, integer part and the digits of the fraction        *)
(* without trailing zeros, so that equal values are equal records.         *)
(***************************************************************************)
EXTENDS Integers, Sequences, FiniteSets, TLC

(***************************************************************************)
(* Characters.                                                             *)
(***************************************************************************)
\* The printable ASCII characters, code 32 (space) to code 126 (~); the
\* double quote, the backslash and the backtick are written by name.
Ascii ==
  << " ", "!", "DQUOTE", "#", "$", "%", "&", "'", "(", ")", "*", "+", ",", "-",
     ".", "/", "0", "1", "2", "3", "4", "5", "6", "7", "8", "9", ":", ";",
     "<", "=", ">", "?", "@", "A", "B", "C", "D", "E", "F", "G", "H", "I",
     "J", "K", "L", "M", "N", "O", "P", "Q", "R", "S", "T", "U", "V", "W",
     "X", "Y", "Z", "[", "BSLASH", "]", "^", "_", "BTICK", "a", "b", "c", "d", "e",
     "f", "g", "h", "i", "j", "k", "l", "m", "n", "o", "p", "q", "r", "s",
     "t", "u", "v", "w", "x", "y", "z", "{", "|", "}", "~" >>

\* char.charCodeAt(0): the ASCII table above, TAB, LF, the no-break space
\* (written "NBSP", code 160), e-acute ("EACUTE", code 233) and the euro
\* sign ("EURO", code 8364) as representatives of the other ranges.
CharCode(c) ==
  IF \E i \in 1..Len(Ascii) : Ascii[i] = c
    THEN 31 + (CHOOSE i \in 1..Len(Ascii) : Ascii[i] = c)
    ELSE CASE c = "\t" -> 9
           [] c = "\n" -> 10
           [] c = "NBSP" -> 160
           [] c = "EACUTE" -> 233
           [] OTHER -> 8364

Digit == {"0", "1", "2", "3", "4", "5", "6", "7", "8", "9"}

IsDigit(c) == c \in Digit

DigitVal(c) == CharCode(c) - 48

\* The regular-expression class \s on the characters above.
IsSpace(c) == c \in {" ", "\t", "\n", "NBSP"}

\* The regular-expression class [\d\s.,].
IsNumberBody(c) == IsDigit(c) \/ IsSpace(c) \/ c \in {".", ","}

IsSign(c) == c \in {"-", "+"}

(***************************************************************************)
(* Generic helpers on sequences.                                           *)
(***************************************************************************)
\* s.slice(from - 1): the suffix of s that starts at position from.
Drop(s, n) == SubSeq(s, n + 1, Len(s))

\* s.slice(0, n).
Take(s, n) == SubSeq(s, 1, IF n < Len(s) THEN n ELSE Len(s))

RECURSIVE CountIf(_, _)
CountIf(s, cs) ==
  IF s = << >> THEN 0
  ELSE (IF Head(s) \in cs THEN 1 ELSE 0) + CountIf(Tail(s), cs)

\* s.replace(/[cs]/g, ""): s without the characters of cs.
RECURSIVE Without(_, _)
Without(s, cs) ==
  IF s = << >> THEN << >>
  ELSE IF Head(s) \in cs THEN Without(Tail(s), cs)
       ELSE << Head(s) >> \o Without(Tail(s), cs)

\* The greatest position of a character of cs in s, 0 when there is none
\* (lastIndexOf, one-based).
RECURSIVE LastIndexIn(_, _)
LastIndexIn(s, cs) ==
  IF s = << >> THEN 0
  ELSE IF s[Len(s)] \in cs THEN Len(s)
       ELSE LastIndexIn(SubSeq(s, 1, Len(s) - 1), cs)

\* The least position of a character of cs in s, 0 when there is none.
FirstIndexFrom(s, cs, p) ==
  IF \A i \in p..Len(s) : s[i] \notin cs THEN 0
  ELSE CHOOSE i \in p..Len(s) :
         s[i] \in cs /\ \A j \in p..(i - 1) : s[j] \notin cs

\* Length of the longest prefix of s made of characters satisfying P.
RECURSIVE RunLen(_, _)
RunLen(s, cs) ==
  IF s = << >> \/ Head(s) \notin cs THEN 0
  ELSE 1 + RunLen(Tail(s), cs)

SpaceChars == {" ", "\t", "\n", "NBSP"}

\* s.split(/\s+/).filter(Boolean): the maximal runs of non-space characters.
RECURSIVE SplitSpaces(_)
SplitSpaces(s) ==
  IF s = << >> THEN << >>
  ELSE IF IsSpace(Head(s)) THEN SplitSpaces(Tail(s))
  ELSE LET n == IF FirstIndexFrom(s, SpaceChars, 1) = 0 THEN Len(s)
                ELSE FirstIndexFrom(s, SpaceChars, 1) - 1
       IN  << Take(s, n) >> \o SplitSpaces(Drop(s, n))

\* s.replace(/\s+/g, " ")
RECURSIVE CollapseSpaces(_)
CollapseSpaces(s) ==
  LET Collapsed(first) ==
        IF first = 0 THEN s
        ELSE Take(s, first - 1) \o << " " >>
               \o CollapseSpaces(Drop(s, first - 1
                                           + RunLen(Drop(s, first - 1), SpaceChars)))
  IN  Collapsed(FirstIndexFrom(s, SpaceChars, 1))

\* s.trim()
RECURSIVE TrimLeft(_)
TrimLeft(s) == IF s # << >> /\ IsSpace(Head(s)) THEN TrimLeft(Tail(s)) ELSE s

RECURSIVE TrimRight(_)
TrimRight(s) ==
  IF s # << >> /\ IsSpace(s[Len(s)])
    THEN TrimRight(SubSeq(s, 1, Len(s) - 1)) ELSE s

Trim(s) == TrimRight(TrimLeft(s))

\* The value of a sequence of digits (at most nine, see parseNumeric).
RECURSIVE ToNat(_)
ToNat(ds) ==
  IF ds = << >> THEN 0
  ELSE 10 * ToNat(SubSeq(ds, 1, Len(ds) - 1)) + DigitVal(ds[Len(ds)])

RECURSIVE StripLeadingZeros(_)
StripLeadingZeros(ds) ==
  IF ds # << >> /\ Head(ds) = "0" THEN StripLeadingZeros(Tail(ds)) ELSE ds

RECURSIVE StripTrailingZeros(_)
StripTrailingZeros(ds) ==
  IF ds # << >> /\ ds[Len(ds)] = "0"
    THEN StripTrailingZeros(SubSeq(ds, 1, Len(ds) - 1)) ELSE ds

(***************************************************************************)
(* Program constants (config/constants).                                   *)
(***************************************************************************)
COORDINATE_INPUT_MAX_LENGTH == 200
COORDINATE_WARNING_BUFFER_METERS == 5000
MIN_EASTING == 30000
MAX_EASTING == 800000
MIN_NORTHING == 5900000
MAX_NORTHING == 7800000
TM_EASTING_MIN == 300000
TM_EASTING_MAX == 700000
ZONE_EASTING_MIN == 50000
ZONE_EASTING_MAX == 250000
GLOBAL_EASTING_MIN == 30000
GLOBAL_EASTING_MAX == 800000
GLOBAL_NORTHING_MIN == 5900000
GLOBAL_NORTHING_MAX == 7800000

(***************************************************************************)
(* Sanitizer.                                                              *)
(***************************************************************************)
\* value.replace(HTML_TAG_REGEX, "") with HTML_TAG_REGEX = /<[^>]*>/g:
\* a "<" with a later ">" is removed with everything up to that ">".
RECURSIVE StripTags(_)
StripTags(s) ==
  LET Stripped(open, close) ==
        IF open = 0 \/ close = 0 THEN s
        ELSE Take(s, open - 1) \o StripTags(Drop(s, close))
  IN  Stripped(FirstIndexFrom(s, {"<"}, 1),
               IF FirstIndexFrom(s, {"<"}, 1) = 0 THEN 0
               ELSE FirstIndexFrom(s, {">"}, FirstIndexFrom(s, {"<"}, 1) + 1))

KeptChar(c) ==
  \/ CharCode(c) >= 32 /\ CharCode(c) <= 126
  \/ CharCode(c) >= 160 /\ CharCode(c) <= 255

sanitizeCoordinateInputInternal(value) ==
  Trim(CollapseSpaces(SelectSeq(StripTags(value), KeptChar)))

sanitizeCoordinateInput(value) ==
  Take(sanitizeCoordinateInputInternal(value), COORDINATE_INPUT_MAX_LENGTH)

(***************************************************************************)
(* Numbers.                                                                *)
(***************************************************************************)
\* null, for "no number": the record with sign 0.
Null == [sgn |-> 0, ip |-> 0, fp |-> << >>]

IsNull(v) == v.sgn = 0

\* The number sgn * (ip + 0.fp); the fraction has no trailing zero and zero
\* is positive, so equal numbers are equal records.
MkNum(sgn, ip, fp) ==
  LET f == StripTrailingZeros(fp)
  IN  [sgn |-> IF ip = 0 /\ f = << >> THEN 1 ELSE sgn, ip |-> ip, fp |-> f]

Int2Num(n) == MkNum(IF n < 0 THEN -1 ELSE 1, IF n < 0 THEN -n ELSE n, << >>)

\* Math.abs(v) <= m, for an integer m >= 0.
AbsLeq(v, m) == v.ip < m \/ (v.ip = m /\ v.fp = << >>)

\* v >= m and v <= m, for an integer m > 0.
NumGeq(v, m) == v.sgn = 1 /\ v.ip >= m

NumLeq(v, m) == v.sgn = -1 \/ AbsLeq(v, m)

\* isInRange(value, min, max), for integers 0 < min <= max.
isInRange(value, min, max) == NumGeq(value, min) /\ NumLeq(value, max)

\* Math.abs(value - m) <= buffer, for integers m > buffer > 0.
AbsDiffLeq(value, m, buffer) ==
  NumGeq(value, m - buffer) /\ NumLeq(value, m + buffer)

(***************************************************************************)
(* Numeric normalizer.                                                     *)
(***************************************************************************)
\* /[,.-]{2,}/.test(s)
HasSeparatorRun(s) ==
  \E i \in 1..(Len(s) - 1) : s[i] \in {",", ".", "-"} /\ s[i + 1] \in {",", ".", "-"}

\* /^[,.]+|[,.-]+$/.test(s)
HasEdgeSeparator(s) ==
  s # << >> /\ (Head(s) \in {",", "."} \/ s[Len(s)] \in {",", ".", "-"})

\* buildDecimal inside normalizeNumericString.
buildDecimal(intPart, decPart) ==
  LET sanitizedInt == Without(intPart, {",", ".", "-"})
      sanitizedDec == Without(decPart, {",", ".", "-"})
  IN  IF sanitizedInt = << >> /\ sanitizedDec = << >> THEN << >>
      ELSE IF sanitizedDec # << >> THEN sanitizedInt \o << "." >> \o sanitizedDec
      ELSE sanitizedInt

\* spaceGroups.length > 1 && spaceGroups[0].length <= 3 &&
\* spaceGroups.slice(1).every((g) => g.length === 3)
HasThousandSpaces(spaceGroups) ==
  /\ Len(spaceGroups) > 1
  /\ Len(spaceGroups[1]) <= 3
  /\ \A i \in 2..Len(spaceGroups) : Len(spaceGroups[i]) = 3

\* The part of normalizeNumericString after the sign has been taken off.
NormalizeUnsigned(sign, unsignedText) ==
  LET cleaned == IF HasThousandSpaces(SplitSpaces(unsignedText))
                   THEN Without(unsignedText, SpaceChars) ELSE unsignedText
      dotCount == CountIf(cleaned, {"."})
      commaCount == CountIf(cleaned, {","})
      totalSeparators == dotCount + commaCount
      decimalIdx == LastIndexIn(cleaned, {",", "."})
  IN  IF totalSeparators = 0 THEN sign \o cleaned
      ELSE IF totalSeparators > 2 THEN << >>
      ELSE IF totalSeparators = 1
        THEN sign \o buildDecimal(Take(cleaned, decimalIdx - 1),
                                  Drop(cleaned, decimalIdx))
      ELSE IF dotCount > 1 THEN sign \o Without(cleaned, {"."})
      ELSE IF commaCount > 1 THEN sign \o Without(cleaned, {","})
      ELSE sign \o buildDecimal(Without(Take(cleaned, decimalIdx - 1), {",", "."}),
                                Drop(cleaned, decimalIdx))

normalizeNumericString(raw) ==
  LET withSpaces == [i \in 1..Len(raw) |-> IF raw[i] = "NBSP" THEN " " ELSE raw[i]]
      cleaned == SelectSeq(withSpaces,
                   LAMBDA c : IsDigit(c) \/ IsSpace(c) \/ c \in {",", ".", "-"})
      unsigned == IF cleaned # << >> /\ Head(cleaned) = "-" THEN Tail(cleaned)
                  ELSE cleaned
  IN  IF cleaned = << >> \/ HasSeparatorRun(cleaned) \/ HasEdgeSeparator(unsigned)
        THEN << >>
      ELSE NormalizeUnsigned(
             IF Head(cleaned) = "-" THEN << "-" >> ELSE << >>,
             Without(unsigned, {"+", "-"}))

\* Number.parseFloat(text): leading white space, an optional sign, then the
\* longest prefix digits [. digits]; NaN (nan) when that prefix has no digit.
parseFloat(text) ==
  LET t == TrimLeft(text)
      sgn == IF t # << >> /\ Head(t) = "-" THEN -1 ELSE 1
      body == IF t # << >> /\ IsSign(Head(t)) THEN Tail(t) ELSE t
      nInt == RunLen(body, Digit)
      afterInt == Drop(body, nInt)
      nFrac == IF afterInt # << >> /\ Head(afterInt) = "."
                 THEN RunLen(Tail(afterInt), Digit) ELSE 0
      intDigits == StripLeadingZeros(Take(body, nInt))
      fracDigits == SubSeq(afterInt, 2, 1 + nFrac)
  IN  [nan |-> (nInt = 0 /\ nFrac = 0), sgn |-> sgn, intDigits |-> intDigits,
       fp |-> StripTrailingZeros(fracDigits)]

\* Math.abs(value) < PRECISION_LIMITER, with PRECISION_LIMITER = 1e-3.
BelowPrecision(f) ==
  /\ f.intDigits = << >>
  /\ (f.fp = << >> \/ (Len(f.fp) > 3 /\ SubSeq(f.fp, 1, 3) = << "0", "0", "0" >>))

\* Math.abs(value) > 1e8
AboveLimit(f) ==
  \/ Len(f.intDigits) > 9
  \/ ToNat(f.intDigits) > 100000000
  \/ ToNat(f.intDigits) = 100000000 /\ f.fp # << >>

parseNumeric(raw) ==
  LET Checked(normalized) ==
        LET Limited(value) ==
              IF value.nan THEN Null
              ELSE IF AboveLimit(value) THEN Null
              ELSE IF BelowPrecision(value) THEN Int2Num(0)
              ELSE MkNum(value.sgn, ToNat(value.intDigits), value.fp)
        IN  IF normalized = << >> THEN Null
            ELSE IF CountIf(normalized, Digit) > 15 THEN Null
            ELSE Limited(parseFloat(normalized))
  IN  IF CountIf(raw, Digit) > 18 THEN Null
      ELSE Checked(normalizeNumericString(raw))

(***************************************************************************)
(* Parser and axis-order resolver.                                         *)
(***************************************************************************)
NumberBodyChars == Digit \cup SpaceChars \cup {".", ","}

\* The length of the match of [-+]?\d[\d\s.,]* at the head of s, 0 when it
\* does not match there.
NumberMatchLen(s) ==
  IF s # << >> /\ IsDigit(Head(s))
    THEN 1 + RunLen(Tail(s), NumberBodyChars)
  ELSE IF Len(s) >= 2 /\ IsSign(s[1]) /\ IsDigit(s[2])
    THEN 2 + RunLen(Drop(s, 2), NumberBodyChars)
  ELSE 0

\* input.match(NUMBER_CAPTURE_REGEX) ?? [], with
\* NUMBER_CAPTURE_REGEX = /[-+]?\d[\d\s.,]*/g: the successive leftmost
\* greedy matches.
RECURSIVE extractNumbers(_)
extractNumbers(input) ==
  IF input = << >> THEN << >>
  ELSE IF NumberMatchLen(input) > 0
    THEN << Take(input, NumberMatchLen(input)) >>
         \o extractNumbers(Drop(input, NumberMatchLen(input)))
  ELSE extractNumbers(Tail(input))

\* The match of LABELED_VALUE_REGEX = /([ENen])\s*[:=]?\s*([-+]?\d[\d\s.,]*)/
\* at the head of s: its length (0: no match), label and value text.
LabeledMatch(s) ==
  LET Value(sp1, sep, sp2, rest) ==
        IF s # << >> /\ Head(s) \in {"E", "N", "e", "n"} /\ NumberMatchLen(rest) > 0
          THEN [len |-> 1 + sp1 + sep + sp2 + NumberMatchLen(rest),
                label |-> Head(s), value |-> Take(rest, NumberMatchLen(rest))]
          ELSE [len |-> 0, label |-> "", value |-> << >>]
      AfterSeparator(sp1, sep, rest) ==
        Value(sp1, sep, RunLen(rest, SpaceChars),
              Drop(rest, RunLen(rest, SpaceChars)))
      AfterSpaces(sp1, rest) ==
        AfterSeparator(sp1,
          IF rest # << >> /\ Head(rest) \in {":", "="} THEN 1 ELSE 0,
          IF rest # << >> /\ Head(rest) \in {":", "="} THEN Tail(rest) ELSE rest)
  IN  AfterSpaces(RunLen(Tail(s), SpaceChars),
                  Drop(Tail(s), RunLen(Tail(s), SpaceChars)))

\* The loop of parseLabeled over input.matchAll(LABELED_VALUE_REGEX),
\* started with the values found so far.
RECURSIVE LabeledScan(_, _, _)
LabeledScan(input, easting, northing) ==
  LET Matched(m) ==
        LET Assigned(value) ==
              IF IsNull(value)
                THEN LabeledScan(Drop(input, m.len), easting, northing)
              ELSE IF m.label \in {"E", "e"}
                THEN LabeledScan(Drop(input, m.len), value, northing)
              ELSE LabeledScan(Drop(input, m.len), easting, value)
        IN  IF m.len = 0 THEN LabeledScan(Tail(input), easting, northing)
            ELSE Assigned(parseNumeric(m.value))
  IN  IF input = << >> THEN [easting |-> easting, northing |-> northing]
      ELSE Matched(LabeledMatch(input))

parseLabeled(input) == LabeledScan(input, Null, Null)

isLikelyWgs84(first, second) ==
  \/ AbsLeq(first, 90) /\ AbsLeq(second, 180)
  \/ AbsLeq(first, 90) /\ AbsLeq(second, 90)

NoWarning == "none"

NoAxisOrder == [found |-> FALSE, easting |-> Null, northing |-> Null,
                warning |-> NoWarning]

AxisOrder(easting, northing, warning) ==
  [found |-> TRUE, easting |-> easting, northing |-> northing,
   warning |-> warning]

\* The pair in the order it is given.
keepAxisOrder(first, second) ==
  IF isLikelyWgs84(first, second) THEN NoAxisOrder
  ELSE AxisOrder(first, second, NoWarning)

\* The resolver with a northing range that starts inside the easting range,
\* at 500000.
detectAxisOrderOverlapping(first, second) ==
  LET firstIsEasting == NumGeq(first, MIN_EASTING) /\ NumLeq(first, MAX_EASTING)
      firstIsNorthing == NumGeq(first, 500000) /\ NumLeq(first, MAX_NORTHING)
      secondIsEasting == NumGeq(second, MIN_EASTING) /\ NumLeq(second, MAX_EASTING)
      secondIsNorthing == NumGeq(second, 500000) /\ NumLeq(second, MAX_NORTHING)
  IN  IF isLikelyWgs84(first, second) THEN NoAxisOrder
      ELSE IF firstIsEasting /\ ~firstIsNorthing /\ secondIsNorthing /\ ~secondIsEasting
        THEN AxisOrder(first, second, NoWarning)
      ELSE IF firstIsNorthing /\ ~firstIsEasting /\ secondIsEasting /\ ~secondIsNorthing
        THEN AxisOrder(second, first, NoWarning)
      ELSE IF firstIsEasting /\ ~secondIsEasting /\ ~secondIsNorthing
        THEN AxisOrder(first, second, NoWarning)
      ELSE IF secondIsEasting /\ ~firstIsEasting /\ ~firstIsNorthing
        THEN AxisOrder(second, first, NoWarning)
      ELSE IF firstIsEasting /\ secondIsNorthing
        THEN AxisOrder(first, second,
               IF secondIsEasting THEN "coordinateWarningAmbiguousOrder"
               ELSE NoWarning)
      ELSE IF firstIsNorthing /\ secondIsEasting
        THEN AxisOrder(second, first,
               IF firstIsEasting THEN "coordinateWarningAmbiguousOrder"
               ELSE NoWarning)
      ELSE NoAxisOrder

detectAxisOrder(first, second) ==
  LET firstIsEasting == NumGeq(first, MIN_EASTING) /\ NumLeq(first, MAX_EASTING)
      firstIsNorthing == NumGeq(first, MIN_NORTHING) /\ NumLeq(first, MAX_NORTHING)
      secondIsEasting == NumGeq(second, MIN_EASTING) /\ NumLeq(second, MAX_EASTING)
      secondIsNorthing == NumGeq(second, MIN_NORTHING) /\ NumLeq(second, MAX_NORTHING)
  IN  IF isLikelyWgs84(first, second) THEN NoAxisOrder
      ELSE IF firstIsEasting /\ ~firstIsNorthing /\ secondIsNorthing /\ ~secondIsEasting
        THEN AxisOrder(first, second, NoWarning)
      ELSE IF firstIsNorthing /\ ~firstIsEasting /\ secondIsEasting /\ ~secondIsNorthing
        THEN AxisOrder(second, first, NoWarning)
      ELSE IF firstIsEasting /\ ~secondIsEasting /\ ~secondIsNorthing
        THEN AxisOrder(first, second, NoWarning)
      ELSE IF secondIsEasting /\ ~firstIsEasting /\ ~firstIsNorthing
        THEN AxisOrder(second, first, NoWarning)
      ELSE IF firstIsEasting /\ secondIsNorthing
        THEN AxisOrder(first, second,
               IF secondIsEasting THEN "coordinateWarningAmbiguousOrder"
               ELSE NoWarning)
      ELSE IF firstIsNorthing /\ secondIsEasting
        THEN AxisOrder(second, first,
               IF firstIsEasting THEN "coordinateWarningAmbiguousOrder"
               ELSE NoWarning)
      ELSE NoAxisOrder

\* /[ENen]\s*[:=]/.test(value)
HasLabel(value) ==
  \E i \in 1..Len(value) :
    /\ value[i] \in {"E", "N", "e", "n"}
    /\ LET rest == Drop(value, i)
           after == Drop(rest, RunLen(rest, SpaceChars))
       IN  after # << >> /\ Head(after) \in {":", "="}

\* /\d\s*,\s*\d/.test(value)
HasCommaPair(value) ==
  \E i \in 1..Len(value) :
    /\ IsDigit(value[i])
    /\ LET rest == Drop(value, i)
           a == Drop(rest, RunLen(rest, SpaceChars))
           b == Drop(Tail(a), RunLen(Tail(a), SpaceChars))
       IN  a # << >> /\ Head(a) = "," /\ b # << >> /\ IsDigit(Head(b))

\* /\d\s+\d/.test(value)
HasSpacePair(value) ==
  \E i \in 1..Len(value) :
    /\ IsDigit(value[i])
    /\ LET rest == Drop(value, i)
           n == RunLen(rest, SpaceChars)
       IN  n > 0 /\ Drop(rest, n) # << >> /\ IsDigit(Head(Drop(rest, n)))

detectInputFormat(value) ==
  IF HasLabel(value) THEN "labeled"
  ELSE IF HasCommaPair(value) THEN "comma"
  ELSE IF HasSpacePair(value) THEN "space"
  ELSE "unknown"

ParseFailure(error) ==
  [success |-> FALSE, error |-> error, easting |-> Null, northing |-> Null,
   format |-> "none", sanitized |-> << >>, warning |-> NoWarning]

isCoordinateInRange(easting, northing) ==
  /\ isInRange(easting, MIN_EASTING, MAX_EASTING)
  /\ isInRange(northing, MIN_NORTHING, MAX_NORTHING)

buildCoordinateResult(easting, northing, format, sanitized, warning) ==
  IF isLikelyWgs84(easting, northing) THEN ParseFailure("coordinateErrorNotSweref")
  ELSE IF ~isCoordinateInRange(easting, northing)
    THEN ParseFailure("coordinateErrorOutOfRange")
  ELSE [success |-> TRUE, error |-> "none", easting |-> easting,
        northing |-> northing, format |-> format, sanitized |-> sanitized,
        warning |-> warning]

\* token.replace(/^[,;]+|[,;]+$/g, "")
RECURSIVE StripTokenEnd(_)
StripTokenEnd(token) ==
  IF token # << >> /\ token[Len(token)] \in {",", ";"}
    THEN StripTokenEnd(SubSeq(token, 1, Len(token) - 1)) ELSE token

StripToken(token) == StripTokenEnd(Drop(token, RunLen(token, {",", ";"})))

\* sanitized.split(/\s+/).map(strip).filter((token) => token.length > 0)
fallbackTokens(sanitized) ==
  SelectSeq([i \in 1..Len(SplitSpaces(sanitized)) |->
               StripToken(SplitSpaces(sanitized)[i])],
            LAMBDA token : token # << >>)

\* The last two captured numbers, without the fallback.
LastCandidateTexts(sanitized) ==
  LET Last(numbers) ==
        IF Len(numbers) > 2 THEN SubSeq(numbers, Len(numbers) - 1, Len(numbers))
        ELSE numbers
  IN  Last(extractNumbers(sanitized))

\* The numeric candidates of parseCoordinateString: the captured numbers, or
\* the first two fallback tokens when fewer than two numbers were captured.
CandidateTexts(sanitized) ==
  LET Pick(numbers, tokens) ==
        IF Len(numbers) < 2 /\ Len(tokens) >= 2 THEN Take(tokens, 2) ELSE numbers
  IN  Pick(extractNumbers(sanitized), fallbackTokens(sanitized))

\* The unlabelled path of parseCoordinateString.
ParseUnlabelled(sanitized, format) ==
  LET Built(axisOrder) ==
        IF ~axisOrder.found THEN ParseFailure("coordinateErrorParse")
        ELSE buildCoordinateResult(axisOrder.easting, axisOrder.northing,
               IF format = "unknown"
                 THEN (IF \E i \in 1..Len(sanitized) : sanitized[i] = ","
                         THEN "comma" ELSE "space")
                 ELSE format,
               sanitized, axisOrder.warning)
      Resolved(firstCandidate, secondCandidate) ==
        IF IsNull(firstCandidate) \/ IsNull(secondCandidate)
          THEN ParseFailure("coordinateErrorParse")
        ELSE Built(detectAxisOrder(firstCandidate, secondCandidate))
      Candidates(numbers) ==
        IF Len(numbers) < 2 THEN ParseFailure("coordinateErrorParse")
        ELSE Resolved(parseNumeric(numbers[1]), parseNumeric(numbers[2]))
  IN  Candidates(CandidateTexts(sanitized))

parseCoordinateString(input) ==
  LET Labeled(sanitized, format, labeledResult) ==
        IF /\ format = "labeled"
           /\ ~IsNull(labeledResult.easting)
           /\ ~IsNull(labeledResult.northing)
          THEN buildCoordinateResult(labeledResult.easting, labeledResult.northing,
                                     "labeled", sanitized, NoWarning)
        ELSE ParseUnlabelled(sanitized, format)
      Sanitized(sanitized) ==
        IF sanitized = << >> THEN ParseFailure("coordinateErrorEmpty")
        ELSE IF Len(sanitized) > COORDINATE_INPUT_MAX_LENGTH
          THEN ParseFailure("coordinateErrorTooLong")
        ELSE Labeled(sanitized, detectInputFormat(sanitized), parseLabeled(sanitized))
  IN  IF input = << >> THEN ParseFailure("coordinateErrorEmpty")
      ELSE Sanitized(sanitizeCoordinateInputInternal(input))

(***************************************************************************)
(* Projection table.  Meridians and longitudes are in hundredths of a      *)
(* degree, confidences in hundredths.                                      *)
(***************************************************************************)
ZONE_BOUNDS == [eMin |-> 50000, eMax |-> 250000, nMin |-> 6100000, nMax |-> 7700000]

ZONE_SPECS ==
  << [zoneId |-> "12 00", epsg |-> 3007, centralMeridian |-> 1200],
     [zoneId |-> "13 30", epsg |-> 3008, centralMeridian |-> 1350],
     [zoneId |-> "15 00", epsg |-> 3009, centralMeridian |-> 1500],
     [zoneId |-> "16 30", epsg |-> 3010, centralMeridian |-> 1650],
     [zoneId |-> "18 00", epsg |-> 3011, centralMeridian |-> 1800],
     [zoneId |-> "14 15", epsg |-> 3012, centralMeridian |-> 1425],
     [zoneId |-> "15 45", epsg |-> 3013, centralMeridian |-> 1575],
     [zoneId |-> "17 15", epsg |-> 3014, centralMeridian |-> 1725],
     [zoneId |-> "18 45", epsg |-> 3015, centralMeridian |-> 1875],
     [zoneId |-> "20 15", epsg |-> 3016, centralMeridian |-> 2025],
     [zoneId |-> "21 45", epsg |-> 3017, centralMeridian |-> 2175],
     [zoneId |-> "23 15", epsg |-> 3018, centralMeridian |-> 2325] >>

\* The zoneId stands for the id built from it ("sweref99-" and the zoneId
\* without its space).
buildZoneProjection(spec) ==
  [id |-> spec.zoneId, epsg |-> spec.epsg, type |-> "zone",
   centralMeridian |-> spec.centralMeridian, bounds |-> ZONE_BOUNDS]

SWEREF99_TM ==
  [id |-> "sweref99-tm", epsg |-> 3006, type |-> "tm", centralMeridian |-> 1500,
   bounds |-> [eMin |-> 300000, eMax |-> 700000, nMin |-> 6100000, nMax |-> 7700000]]

SWEREF99_ZONES == [i \in 1..Len(ZONE_SPECS) |-> buildZoneProjection(ZONE_SPECS[i])]

\* "no projection" (null), as a record of the same shape.
NoProjection ==
  [id |-> "none", epsg |-> 0, type |-> "none", centralMeridian |-> 0,
   bounds |-> [eMin |-> 0, eMax |-> 0, nMin |-> 0, nMax |-> 0]]

(***************************************************************************)
(* Projection detector.                                                    *)
(***************************************************************************)
isWithinBounds(value, bounds, axis) ==
  IF axis = "e" THEN isInRange(value, bounds.eMin, bounds.eMax)
  ELSE isInRange(value, bounds.nMin, bounds.nMax)

\* The zones whose bounds hold the easting, whatever the northing.
findZonesByEasting(easting, northing) ==
  SelectSeq(SWEREF99_ZONES,
    LAMBDA zone : isWithinBounds(easting, zone.bounds, "e"))

\* The first zone of the table whose bounds hold the pair, alone.
findFirstMatchingZone(easting, northing) ==
  Take(SelectSeq(SWEREF99_ZONES,
         LAMBDA zone : /\ isWithinBounds(easting, zone.bounds, "e")
                       /\ isWithinBounds(northing, zone.bounds, "n")), 1)

findMatchingZones(easting, northing) ==
  SelectSeq(SWEREF99_ZONES,
    LAMBDA zone : /\ isWithinBounds(easting, zone.bounds, "e")
                  /\ isWithinBounds(northing, zone.bounds, "n"))

\* "no longitude" (null); longitudes are integers otherwise.
NoLon == 99999

\* A map centre is [point, hasLongitude, longitude, x, wkid]; point = FALSE is
\* a missing centre.
getLonFromPoint(point) ==
  LET lon == IF point.hasLongitude THEN point.longitude
             ELSE IF point.wkid = 4326 THEN point.x
             ELSE NoLon
  IN  IF ~point.point THEN NoLon
      ELSE IF lon # NoLon /\ (lon < -18000 \/ lon > 18000) THEN NoLon
      ELSE lon

Abs(n) == IF n < 0 THEN -n ELSE n

\* The loop of getNearestZoneByCentralMeridian over the zones from index i,
\* with the nearest zone and the least difference found so far (minDiff < 0
\* stands for the initial +Infinity).
RECURSIVE NearestFrom(_, _, _, _)
NearestFrom(i, longitude, nearest, minDiff) ==
  IF i > Len(SWEREF99_ZONES) THEN nearest
  ELSE LET zone == SWEREF99_ZONES[i]
           diff == Abs(zone.centralMeridian - longitude)
       IN  IF minDiff < 0 \/ diff < minDiff
             THEN NearestFrom(i + 1, longitude, zone, diff)
             ELSE NearestFrom(i + 1, longitude, nearest, minDiff)

\* The first zone of the table, whatever the longitude.
getFirstZone(longitude) == SWEREF99_ZONES[1]

getNearestZoneByCentralMeridian(longitude) ==
  NearestFrom(1, longitude, SWEREF99_ZONES[1], -1)

\* A comparator by the distance to the meridian of the target zone.
RankCompareByTarget(a, b, targetZone, longitude) ==
  Abs(a.centralMeridian - targetZone.centralMeridian)
    - Abs(b.centralMeridian - targetZone.centralMeridian)

\* The comparator of rankZoneCandidates: negative when a sorts before b.
RankCompare(a, b, targetZone, longitude) ==
  IF a = targetZone THEN -1
  ELSE IF b = targetZone THEN 1
  ELSE Abs(a.centralMeridian - longitude) - Abs(b.centralMeridian - longitude)

\* Array.prototype.sort is stable: insert x after the last element that
\* does not sort after it.
RECURSIVE InsertRanked(_, _, _, _)
InsertRanked(sorted, x, targetZone, longitude) ==
  IF sorted = << >> THEN << x >>
  ELSE IF RankCompare(x, sorted[Len(sorted)], targetZone, longitude) < 0
    THEN InsertRanked(SubSeq(sorted, 1, Len(sorted) - 1), x, targetZone, longitude)
         \o << sorted[Len(sorted)] >>
  ELSE sorted \o << x >>

RECURSIVE SortRanked(_, _, _)
SortRanked(candidates, targetZone, longitude) ==
  IF candidates = << >> THEN << >>
  ELSE InsertRanked(
         SortRanked(SubSeq(candidates, 1, Len(candidates) - 1), targetZone, longitude),
         candidates[Len(candidates)], targetZone, longitude)

\* "!longitude" holds for null and for 0.
rankZoneCandidates(candidates, longitude) ==
  IF candidates = << >> \/ longitude = NoLon \/ longitude = 0 THEN candidates
  ELSE SortRanked(candidates, getNearestZoneByCentralMeridian(longitude), longitude)

\* Strictly inside the buffer of an edge.
InsideBuffer(easting, bounds) ==
  \/ AbsDiffLeq(easting, bounds.eMin, COORDINATE_WARNING_BUFFER_METERS - 1)
  \/ AbsDiffLeq(easting, bounds.eMax, COORDINATE_WARNING_BUFFER_METERS - 1)

NearBoundary(easting, bounds) ==
  \/ AbsDiffLeq(easting, bounds.eMin, COORDINATE_WARNING_BUFFER_METERS)
  \/ AbsDiffLeq(easting, bounds.eMax, COORDINATE_WARNING_BUFFER_METERS)

buildDetectionResult(projection, confidence, alternatives, easting) ==
  [projection |-> projection, confidence |-> confidence,
   alternatives |-> alternatives,
   warnings |-> IF projection # NoProjection /\ NearBoundary(easting, projection.bounds)
                  THEN << "coordinateWarningNearBoundary" >> ELSE << >>]

detectProjection(easting, northing, mapCenter, preference) ==
  LET mapLon == getLonFromPoint(mapCenter)
      tmLikely == NumGeq(easting, TM_EASTING_MIN) /\ NumLeq(easting, TM_EASTING_MAX)
      zoneLikely == NumGeq(easting, ZONE_EASTING_MIN) /\ NumLeq(easting, ZONE_EASTING_MAX)
      zoneCandidates == IF zoneLikely THEN findMatchingZones(easting, northing)
                        ELSE << >>
      ranked == rankZoneCandidates(zoneCandidates, mapLon)
  IN  IF preference = "zone" /\ Len(zoneCandidates) > 0
        THEN buildDetectionResult(ranked[1], 100, Tail(ranked), easting)
      ELSE IF preference = "tm" /\ tmLikely
        THEN buildDetectionResult(SWEREF99_TM, 90, zoneCandidates, easting)
      ELSE IF Len(zoneCandidates) = 1
        THEN buildDetectionResult(zoneCandidates[1], 100, << >>, easting)
      ELSE IF Len(zoneCandidates) > 1
        THEN buildDetectionResult(ranked[1], IF mapLon = NoLon THEN 70 ELSE 85,
                                  Tail(ranked), easting)
      ELSE IF tmLikely THEN buildDetectionResult(SWEREF99_TM, 60, << >>, easting)
      ELSE [projection |-> NoProjection, confidence |-> 0, alternatives |-> << >>,
            warnings |-> << "coordinateErrorNoProjection" >>]

(***************************************************************************)
(* Bounds validator.                                                       *)
(***************************************************************************)
isFiniteNumber(value) == ~IsNull(value)

isSweref99Range(easting, northing) ==
  /\ isInRange(easting, GLOBAL_EASTING_MIN, GLOBAL_EASTING_MAX)
  /\ isInRange(northing, GLOBAL_NORTHING_MIN, GLOBAL_NORTHING_MAX)

\* The easting alone against the bounds.
withinEastingBounds(easting, northing, projection) ==
  IF projection = NoProjection THEN isSweref99Range(easting, northing)
  ELSE isInRange(easting, projection.bounds.eMin, projection.bounds.eMax)

withinProjectionBounds(easting, northing, projection) ==
  IF projection = NoProjection THEN isSweref99Range(easting, northing)
  ELSE /\ isInRange(easting, projection.bounds.eMin, projection.bounds.eMax)
       /\ isInRange(northing, projection.bounds.nMin, projection.bounds.nMax)

checkBoundaryWarning(easting, projection) ==
  IF NearBoundary(easting, projection.bounds)
    THEN << "coordinateWarningNearBoundary" >> ELSE << >>

validateCoordinates(easting, northing, projection) ==
  LET errors ==
        IF projection # NoProjection
           /\ ~withinProjectionBounds(easting, northing, projection)
          THEN << "coordinateErrorOutOfBounds" >>
        ELSE IF ~isSweref99Range(easting, northing)
          THEN << "coordinateErrorOutOfRange" >>
        ELSE << >>
  IN  IF ~isFiniteNumber(easting) \/ ~isFiniteNumber(northing)
        THEN [valid |-> FALSE, errors |-> << "coordinateErrorInvalidNumber" >>,
              warnings |-> << >>]
      ELSE [valid |-> errors = << >>, errors |-> errors,
            warnings |-> IF errors = << >> /\ projection # NoProjection
                           THEN checkBoundaryWarning(easting, projection)
                           ELSE << >>]

(***************************************************************************)
(* Asynchronous transformer and search sequencer: bounds and inputs.       *)
(***************************************************************************)
\* Invocations of searchCoordinatesInternal.  An invocation calls
\* module.load() at most once, so there are at most as many load attempts.
MaxSearches == 3

Searches == 1..MaxSearches
Loads == 1..MaxSearches

\* The decimal text of a natural number.
RECURSIVE NatText(_)
NatText(n) ==
  IF n < 10 THEN << Ascii[17 + n] >>
  ELSE NatText(n \div 10) \o << Ascii[17 + (n % 10)] >>

\* Texts typed into the search box: a TM coordinate and a coordinate
\* outside the bounds of its projection.
SearchInputs ==
  { NatText(500000) \o << " " >> \o NatText(6500000),
    NatText(500000) \o << " " >> \o NatText(6000000) }

\* The host as a search finds it: the loaded modules (or none yet), the map
\* view (or none) and the wkid of its spatial reference (0: none).
HostStates ==
  { [modules |-> TRUE, mapView |-> TRUE, wkid |-> 3006],
    [modules |-> TRUE, mapView |-> TRUE, wkid |-> 3857],
    [modules |-> TRUE, mapView |-> TRUE, wkid |-> 0],
    [modules |-> FALSE, mapView |-> TRUE, wkid |-> 3857] }

\* The map centre and the projection preference of the host.
HostMapCenter ==
  [point |-> TRUE, hasLongitude |-> TRUE, longitude |-> 1510, x |-> 0, wkid |-> 3006]

HostPreference == "auto"

\* A value a collaborator throws or rejects with: an Error or not, a string
\* or not, and its message or text.
Thrown(isError, isString, text) ==
  [isError |-> isError, isString |-> isString, text |-> text]

\* What module.load() rejects with: an Error, or a value that is neither an
\* Error nor a string.
LoadRejections ==
  { Thrown(TRUE, FALSE, "network down"), Thrown(FALSE, FALSE, "") }

\* What module.project does: it returns a finite point, a point without a
\* spatial reference, something that is not a point, a point with a
\* non-finite coordinate, or it throws an Error or null.
ProjectOutcomes ==
  { "point", "pointWithoutReference", "notPoint", "nonFinite", "throwsError",
    "throwsNull" }

\* What a callback of the caller does.
CallbackOutcomes == { "returns", "throws" }

\* The message of the Error a throwing callback raises.
CallbackFailure == "render failed"

\* The keys of the engine's error vocabulary: the keys of
\* runtime/translations and the two keys validateTransformParams adds.
ErrorKeys ==
  { "coordinateErrorEmpty", "coordinateErrorTooLong", "coordinateErrorParse",
    "coordinateErrorNotSweref", "coordinateErrorOutOfRange",
    "coordinateErrorOutOfBounds", "coordinateErrorInvalidNumber",
    "coordinateErrorNoProjection", "coordinateErrorGeneric",
    "coordinateErrorProjectionTimeout", "coordinateErrorProjectionLoad",
    "coordinateErrorNoSpatialReference", "coordinateErrorTransform",
    "coordinateErrorMissingModules", "coordinateErrorNoMapView",
    "coordinateErrorInvalidProjection", "coordinateErrorInvalidCoordinates" }

Outdated == "coordinateSearchOutdated"

(***************************************************************************)
(* State.                                                                  *)
(***************************************************************************)
VARIABLES
  sequenceRef,               \* sequenceRef.current of useCoordinateSearch
  inv,                       \* per invocation of searchCoordinatesInternal
  calls,                     \* per invocation: the callbacks it invoked
  settled,                   \* per invocation: how its promise settled
  projectionLoadCache,       \* the memoized load promise (0: no entry)
  projectionLoadInProgress,  \* the in-progress mark of the module
  loadPromise,               \* per load attempt: the state of its loadPromise
  loadCalls,                 \* number of calls of module.load()
  projectCalls,              \* number of calls of module.project()
  parseInput,                \* the text handed to parseCoordinateString
  parseResult,               \* what parseCoordinateString returned for it
  sanitizeValue,             \* a text, and what sanitizeCoordinateInput made of it
  sanitizeCount,             \* how often sanitizeCoordinateInput was applied to it
  detectInput,               \* the parameters handed to detectProjection
  detectResult,              \* what detectProjection returned for them
  validateInput,             \* the parameters handed to validateCoordinates
  validateResult,            \* what validateCoordinates returned for them
  store,                     \* the widget's redux state (searchWidgetState)
  lastAction,                \* the action the reducer handled last
  axisInput,                 \* the pair of numbers handed to detectAxisOrder
  axisResult,                \* what detectAxisOrder returned for it
  normalizeInput,            \* the text handed to normalizeNumericString
  normalizeResult            \* what normalizeNumericString returned for it

engineVars ==
  << sequenceRef, inv, calls, settled, projectionLoadCache,
     projectionLoadInProgress, loadPromise, loadCalls, projectCalls >>

parseVars == << parseInput, parseResult >>

sanitizeVars == << sanitizeValue, sanitizeCount >>

detectVars == << detectInput, detectResult >>

validateVars == << validateInput, validateResult >>

\* The variables of the pure functions, which the engine leaves alone.
storeVars == << store, lastAction >>

axisVars == << axisInput, axisResult >>

normalizeVars == << normalizeInput, normalizeResult >>

pureVars == << parseVars, sanitizeVars, detectVars, validateVars, storeVars,
              axisVars, normalizeVars >>

vars == << sequenceRef, inv, calls, settled, projectionLoadCache,
           projectionLoadInProgress, loadPromise, loadCalls, projectCalls,
           parseInput, parseResult, sanitizeValue, sanitizeCount,
           detectInput, detectResult, validateInput, validateResult,
           store, lastAction, axisInput, axisResult, normalizeInput,
           normalizeResult >>

NoPoint == [x |-> Null, y |-> Null, wkid |-> 0, projected |-> FALSE]

\* The outcome of transformer.transform: a point, or the message of the
\* Error it rejected with.
NoResult == [ok |-> FALSE, error |-> "none", point |-> NoPoint]

TransformOk(point) == [ok |-> TRUE, error |-> "none", point |-> point]

TransformError(message) == [ok |-> FALSE, error |-> message, point |-> NoPoint]

\* pc: "idle" (not called), "poll" (in the 10 ms wait of
\* loadProjectionModule), "awaitLoad" (awaiting a load promise), "caught"
\* (the load promise it started was rejected, the catch block behind its
\* await has not run yet), "loaded" (load promise fulfilled, project not
\* yet called), "ready" (transform settled, continuation of
\* searchCoordinatesInternal not yet run), "done".
IdleInvocation ==
  [pc |-> "idle", sequence |-> 0, stage |-> "none", easting |-> Null,
   northing |-> Null, epsg |-> 0, target |-> 0, waitOn |-> 0,
   starter |-> FALSE, result |-> NoResult]

EngineInit ==
  /\ sequenceRef = 0
  /\ inv = [i \in Searches |-> IdleInvocation]
  /\ calls = [i \in Searches |-> << >>]
  /\ settled = [i \in Searches |-> "pending"]
  /\ projectionLoadCache = 0
  /\ projectionLoadInProgress = FALSE
  /\ loadPromise = [k \in Loads |-> [state |-> "unused", error |-> "none",
                                     cause |-> "none"]]
  /\ loadCalls = 0
  /\ projectCalls = 0

\* The parts of the state a specification does not use, at rest: every part
\* but the one named.
Idle(used) ==
  /\ IF used = "engine" THEN TRUE ELSE EngineInit
  /\ IF used = "parse" THEN TRUE
     ELSE parseInput = << >> /\ parseResult = ParseFailure("none")
  /\ IF used = "sanitize" THEN TRUE
     ELSE sanitizeValue = << >> /\ sanitizeCount = 0
  /\ IF used = "detect" THEN TRUE
     ELSE detectInput = "none" /\ detectResult = "none"
  /\ IF used = "validate" THEN TRUE
     ELSE validateInput = "none" /\ validateResult = "none"
  /\ IF used = "store" THEN TRUE
     ELSE store = "none" /\ lastAction = "none"
  /\ IF used = "axis" THEN TRUE
     ELSE axisInput = "none" /\ axisResult = "none"
  /\ IF used = "normalize" THEN TRUE
     ELSE normalizeInput = "none" /\ normalizeResult = "none"

Init ==
  /\ EngineInit
  /\ Idle("engine")

(***************************************************************************)
(* Search sequencer: the synchronous stages.                               *)
(***************************************************************************)
\* result.success ? { ...result, sanitized } : result
withSanitized(result, sanitized) ==
  IF result.success THEN [result EXCEPT !.sanitized = sanitized] ELSE result

\* parser.parseCoordinates of useCoordinateParser: the text is sanitized by
\* the hook and parsed, and a successful result carries the text the hook
\* sanitized.
parseCoordinates(value) ==
  withSanitized(parseCoordinateString(sanitizeCoordinateInput(value)),
                sanitizeCoordinateInput(value))

\* The stages of searchCoordinatesInternal before the transform: the error
\* key of the first stage that fails ("none": all pass) and what the
\* transform is called with.
SyncStages(input) ==
  LET Stages(parsed, detection, validation, errorKey) ==
        [errorKey |-> errorKey, easting |-> parsed.easting,
         northing |-> parsed.northing,
         epsg |-> IF errorKey = "none" THEN detection.projection.epsg ELSE 0]
      Validated(parsed, detection, validation) ==
        Stages(parsed, detection, validation,
          IF ~parsed.success \/ IsNull(parsed.easting) \/ IsNull(parsed.northing)
            THEN parsed.error
          ELSE IF detection.projection = NoProjection
            THEN "coordinateErrorNoProjection"
          ELSE IF ~validation.valid THEN validation.errors[1]
          ELSE "none")
      Detected(parsed, detection) ==
        Validated(parsed, detection,
          validateCoordinates(parsed.easting, parsed.northing, detection.projection))
      Parsed(parsed) ==
        Detected(parsed,
          detectProjection(parsed.easting, parsed.northing, HostMapCenter,
                           HostPreference))
  IN  Parsed(parseCoordinates(input))

\* The synchronous stages of every text of SearchInputs.
SearchStages == [input \in SearchInputs |-> SyncStages(input)]

\* A comparison that holds for every invocation already started.
IsNotNewer(sequence, current) == sequence <= current

\* ensureCurrent does not throw: the captured sequence number is the
\* counter's value.
IsCurrent(sequence, current) == sequence = current

\* The message the catch block of searchCoordinatesInternal derives from an
\* Error's message.
CatchMessage(message) == IF message # "" THEN message ELSE "coordinateErrorGeneric"

\* The condition with the flag inverted: nothing is reported from the catch
\* block of an invocation whose failWith has not run.
ReportWhenHandled(errorHandled, sequence, current) ==
  errorHandled /\ IsCurrent(sequence, current)

\* The condition under which the catch block calls the error callback.
ShouldReportError(errorHandled, sequence, current) ==
  ~errorHandled /\ IsCurrent(sequence, current)

\* The catch handler of triggerCoordinateSearch: it returns without logging
\* for the outdated signal and for every Error with a message.
CallerSwallows(message) == message = Outdated \/ message # ""

Callback(kind, value, current) == [kind |-> kind, value |-> value, at |-> current]

(***************************************************************************)
(* Asynchronous transformer.                                               *)
(***************************************************************************)
\* A comparison of the two spatial reference objects by identity.
SameReferenceObject(sourceWkid, targetWkid) == FALSE

\* sourcePoint.spatialReference?.wkid === spatialReference.wkid
SameSpatialReference(sourceWkid, targetWkid) == sourceWkid = targetWkid

\* createSweref99Point
createSweref99Point(easting, northing, epsg) ==
  [x |-> easting, y |-> northing, wkid |-> epsg, projected |-> FALSE]

\* The checks of useCoordinateTransform's transform and of
\* validateTransformParams: the key of the first that fails, or "none".
TransformGuard(host, easting, northing, epsg) ==
  IF ~host.modules THEN "coordinateErrorMissingModules"
  ELSE IF ~host.mapView THEN "coordinateErrorNoMapView"
  ELSE IF host.wkid = 0 THEN "coordinateErrorNoSpatialReference"
  ELSE IF epsg <= 0 THEN "coordinateErrorInvalidProjection"
  ELSE IF ~isFiniteNumber(easting) \/ ~isFiniteNumber(northing)
    THEN "coordinateErrorInvalidCoordinates"
  ELSE "none"

\* projectionLoadCache.get(projectionModule): the attempt whose promise is
\* memoized, 0 when there is none.
CachedPromise(cache) == cache

\* The memo left as it is.
KeepOnFailure(cache) == cache

\* projectionLoadCache.delete(projectionModule) in the catch block of the
\* load closure.
EvictOnFailure(cache) == 0

\* projectionLoadCache.delete(projectionModule) in the catch block behind
\* the starter's await of the load promise.
EvictAfterAwait(cache) == 0

\* A timer that is cleared before it can fire.
TimeoutCleared(promise) == FALSE

\* The timer of a load attempt is armed while its loadPromise is pending.
TimeoutArmed(promise) == promise.state = "pending"

\* The Error the load promise rejects with when module.load() rejects with e.
LoadFailureMessage(e) ==
  IF e.isError THEN e.text
  ELSE IF e.isString THEN e.text
  ELSE "Projection load failed"

\* The result of transformSweref99ToMap once module.project has behaved as
\* outcome.
ProjectResult(outcome, target) ==
  CASE outcome \in {"point", "pointWithoutReference"} ->
         TransformOk([x |-> Int2Num(1), y |-> Int2Num(1), wkid |-> target,
                      projected |-> TRUE])
    [] outcome \in {"notPoint", "nonFinite"} ->
         TransformError("coordinateErrorTransform")
    [] outcome = "throwsError" -> TransformError("project failed")
    [] OTHER -> TransformError("coordinateErrorTransform")

\* An awaiter of a load promise once the promise is in state p: it goes on
\* awaiting, or goes on to module.project, or its await throws; the await
\* of the caller that started the load sits in a try block of
\* loadProjectionModule.
AfterLoad(invocation, p) ==
  CASE p.state = "pending" -> [invocation EXCEPT !.pc = "awaitLoad"]
    [] p.state = "resolved" -> [invocation EXCEPT !.pc = "loaded"]
    [] OTHER -> [invocation EXCEPT
                   !.pc = IF invocation.starter THEN "caught" ELSE "ready",
                   !.result = TransformError(p.error)]

(***************************************************************************)
(* Actions.  An action is what runs between two points at which the event  *)
(* loop can run something else: a call of searchCoordinates runs up to its *)
(* first await, a settlement of module.load() or the timer runs the        *)
(* continuation of the load closure, and each awaiter resumes in a job of  *)
(* its own, so that a call of searchCoordinates made from a promise        *)
(* reaction can run between any two of them.                               *)
(***************************************************************************)
\* failWith(errorKey) and the catch block behind it: the error callback is
\* called with the key; the promise rejects with the key, or with the
\* callback's own Error when the callback throws.
FailWith(i, sequence, errorKey, onError) ==
  /\ IsCurrent(sequence, sequenceRef')
  /\ calls' = [calls EXCEPT ![i] = Append(@, Callback("error", errorKey, sequenceRef'))]
  /\ settled' = [settled EXCEPT ![i] =
                   IF onError = "throws" THEN CatchMessage(CallbackFailure)
                   ELSE CatchMessage(errorKey)]

\* The tail of loadProjectionModule as run by invocation i: the module is
\* marked in progress, module.load() is called and raced against the timer,
\* the promise is memoized and awaited.
StartLoad(i, invocation) ==
  /\ loadCalls < MaxSearches
  /\ loadCalls' = loadCalls + 1
  /\ projectionLoadInProgress' = TRUE
  /\ loadPromise' = [loadPromise EXCEPT ![loadCalls + 1].state = "pending"]
  /\ projectionLoadCache' = loadCalls + 1
  /\ inv' = [inv EXCEPT ![i] =
               [invocation EXCEPT !.pc = "awaitLoad", !.waitOn = loadCalls + 1,
                                  !.starter = TRUE]]

\* return existingPromise / return retryPromise: invocation i awaits the
\* memoized promise.
JoinLoad(i, invocation) ==
  /\ inv' = [inv EXCEPT ![i] =
               AfterLoad([invocation EXCEPT
                            !.waitOn = CachedPromise(projectionLoadCache)],
                         loadPromise[CachedPromise(projectionLoadCache)])]
  /\ UNCHANGED << projectionLoadCache, projectionLoadInProgress, loadPromise,
                  loadCalls >>

\* loadProjectionModule as called by invocation i: it returns the memoized
\* promise, or waits 10 ms when a load is marked in progress without a
\* memoized promise, or starts a load.
loadProjectionModule(i, started) ==
  IF CachedPromise(projectionLoadCache) # 0 THEN JoinLoad(i, started)
  ELSE IF projectionLoadInProgress
    THEN /\ inv' = [inv EXCEPT ![i] = [started EXCEPT !.pc = "poll"]]
         /\ UNCHANGED << projectionLoadCache, projectionLoadInProgress,
                         loadPromise, loadCalls >>
  ELSE StartLoad(i, started)

\* transformer.transform as called by invocation i: the guards, the
\* unchanged source point when the references match, else the module load.
transform(i, started, host) ==
  LET guard == TransformGuard(host, started.easting, started.northing, started.epsg)
  IN  IF guard # "none"
        THEN /\ inv' = [inv EXCEPT ![i] =
                          [started EXCEPT !.pc = "ready",
                                          !.result = TransformError(guard)]]
             /\ UNCHANGED << projectionLoadCache, projectionLoadInProgress,
                             loadPromise, loadCalls >>
      ELSE IF SameSpatialReference(started.epsg, host.wkid)
        THEN /\ inv' = [inv EXCEPT ![i] =
                          [started EXCEPT
                             !.pc = "ready",
                             !.result = TransformOk(createSweref99Point(
                                started.easting, started.northing, started.epsg))]]
             /\ UNCHANGED << projectionLoadCache, projectionLoadInProgress,
                             loadPromise, loadCalls >>
      ELSE loadProjectionModule(i, started)

\* searchCoordinatesInternal(input), up to its first await.
SearchCoordinates(i, input, host, onError) ==
  /\ inv[i].pc = "idle"
  /\ \A j \in Searches : j < i => inv[j].pc # "idle"
  /\ sequenceRef' = sequenceRef + 1
  /\ LET run == SearchStages[input]
         started == [IdleInvocation EXCEPT
                       !.sequence = sequenceRef + 1,
                       !.stage = IF run.errorKey = "none" THEN "transform" ELSE "sync",
                       !.easting = run.easting, !.northing = run.northing,
                       !.epsg = run.epsg, !.target = host.wkid]
     IN  IF run.errorKey # "none"
           THEN /\ FailWith(i, sequenceRef + 1, run.errorKey, onError)
                /\ inv' = [inv EXCEPT ![i] =
                             [IdleInvocation EXCEPT !.pc = "done",
                                                    !.sequence = sequenceRef + 1,
                                                    !.stage = "sync"]]
                /\ UNCHANGED << projectionLoadCache, projectionLoadInProgress,
                                loadPromise, loadCalls >>
           ELSE /\ transform(i, started, host)
                /\ UNCHANGED << calls, settled >>
  /\ UNCHANGED << projectCalls, pureVars >>

\* The 10 ms wait of loadProjectionModule is over: the memo is read again.
PollAgain(i) ==
  /\ inv[i].pc = "poll"
  /\ IF CachedPromise(projectionLoadCache) # 0 THEN JoinLoad(i, inv[i])
     ELSE StartLoad(i, inv[i])
  /\ UNCHANGED << sequenceRef, calls, settled, projectCalls, pureVars >>

\* Load promise k is fulfilled: the finally block of the load closure
\* clears the mark, and the awaiters of the promise are scheduled.
LoadSucceeds(k) ==
  /\ loadPromise[k].state = "pending"
  /\ loadPromise' = [loadPromise EXCEPT ![k].state = "resolved"]
  /\ projectionLoadInProgress' = FALSE
  /\ inv' = [i \in Searches |->
               IF inv[i].pc = "awaitLoad" /\ inv[i].waitOn = k
                 THEN AfterLoad(inv[i], loadPromise'[k]) ELSE inv[i]]
  /\ UNCHANGED << sequenceRef, calls, settled, projectionLoadCache, loadCalls,
                  projectCalls, pureVars >>

\* Load promise k is rejected: the catch and finally blocks of the load
\* closure clear the mark and the memo, and the awaiters of the promise are
\* scheduled.
LoadFails(k, message, cause) ==
  /\ loadPromise[k].state = "pending"
  /\ loadPromise' = [loadPromise EXCEPT ![k] =
                       [state |-> "rejected", error |-> message, cause |-> cause]]
  /\ projectionLoadInProgress' = FALSE
  /\ projectionLoadCache' = EvictOnFailure(projectionLoadCache)
  /\ inv' = [i \in Searches |->
               IF inv[i].pc = "awaitLoad" /\ inv[i].waitOn = k
                 THEN AfterLoad(inv[i], loadPromise'[k]) ELSE inv[i]]
  /\ UNCHANGED << sequenceRef, calls, settled, loadCalls, projectCalls, pureVars >>

\* module.load() of attempt k resolves.
ModuleLoadResolves(k) == LoadSucceeds(k)

\* module.load() of attempt k rejects with e.
ModuleLoadRejects(k, e) == LoadFails(k, LoadFailureMessage(e), "module")

\* The timer of attempt k fires after PROJECTION_LOAD_TIMEOUT_MS.
LoadTimeout(k) ==
  /\ TimeoutArmed(loadPromise[k])
  /\ LoadFails(k, "coordinateErrorProjectionTimeout", "timeout")

\* The catch block behind the await of the caller that started a load:
\* the memo entry is deleted and the Error is thrown on.
LoadCatch(i) ==
  /\ inv[i].pc = "caught"
  /\ projectionLoadCache' = EvictAfterAwait(projectionLoadCache)
  /\ inv' = [inv EXCEPT ![i].pc = "ready"]
  /\ UNCHANGED << sequenceRef, calls, settled, projectionLoadInProgress,
                  loadPromise, loadCalls, projectCalls, pureVars >>

\* The callbacks and the settlement of searchCoordinatesInternal once the
\* transform of an invocation with the given sequence number has settled.
\* An error callback that throws when the catch block calls it ends the
\* catch block: the promise rejects with the Error of the callback.
AfterTransform(sequence, result, onSuccess, onError) ==
  LET Outcome(current, outdated, message, report, caught) ==
        [calls |->
           (IF result.ok /\ current
              THEN << Callback("success", "result", sequenceRef) >> ELSE << >>)
           \o (IF caught /\ report
                THEN << Callback("error", message, sequenceRef) >> ELSE << >>),
         settled |-> IF outdated THEN Outdated
                     ELSE IF ~caught THEN "resolved"
                     ELSE IF report /\ onError = "throws" THEN CallbackFailure
                     ELSE message]
      Caught(current, outdated) ==
        Outcome(current, outdated,
                IF result.ok THEN CatchMessage(CallbackFailure)
                ELSE CatchMessage(result.error),
                ShouldReportError(FALSE, sequence, sequenceRef),
                ~outdated /\ (~result.ok \/ onSuccess = "throws"))
      Current(current) ==
        Caught(current, IF result.ok THEN ~current ELSE result.error = Outdated)
  IN  Current(IsCurrent(sequence, sequenceRef))

\* The continuation of searchCoordinatesInternal for invocation i, whose
\* transform has settled with result.
Settle(i, result, onSuccess, onError) ==
  /\ LET Applied(after) ==
           /\ calls' = [calls EXCEPT ![i] = @ \o after.calls]
           /\ settled' = [settled EXCEPT ![i] = after.settled]
     IN  Applied(AfterTransform(inv[i].sequence, result, onSuccess, onError))
  /\ inv' = [inv EXCEPT ![i] =
               [IdleInvocation EXCEPT !.pc = "done", !.sequence = inv[i].sequence,
                                      !.stage = inv[i].stage]]
  /\ UNCHANGED << sequenceRef, projectionLoadCache, projectionLoadInProgress,
                  loadPromise, loadCalls, pureVars >>

\* transformSweref99ToMap resumes for invocation i after its load promise
\* was fulfilled: module.project is called and the transform settles.  The
\* continuation of searchCoordinatesInternal runs in a later job (Resume).
Project(i, outcome) ==
  /\ inv[i].pc = "loaded"
  /\ projectCalls' = projectCalls + 1
  /\ inv' = [inv EXCEPT ![i].pc = "ready",
                        ![i].result = ProjectResult(outcome, inv[i].target)]
  /\ UNCHANGED << sequenceRef, calls, settled, projectionLoadCache,
                  projectionLoadInProgress, loadPromise, loadCalls, pureVars >>

\* searchCoordinatesInternal resumes for invocation i, whose transform has
\* settled.
Resume(i, onSuccess, onError) ==
  /\ inv[i].pc = "ready"
  /\ projectCalls' = projectCalls
  /\ Settle(i, inv[i].result, onSuccess, onError)

Next ==
  \/ \E i \in Searches, input \in SearchInputs, host \in HostStates,
        onError \in CallbackOutcomes : SearchCoordinates(i, input, host, onError)
  \/ \E i \in Searches : PollAgain(i)
  \/ \E k \in Loads : ModuleLoadResolves(k)
  \/ \E k \in Loads, e \in LoadRejections : ModuleLoadRejects(k, e)
  \/ \E k \in Loads : LoadTimeout(k)
  \/ \E i \in Searches : LoadCatch(i)
  \/ \E i \in Searches, outcome \in ProjectOutcomes : Project(i, outcome)
  \/ \E i \in Searches, onSuccess \in CallbackOutcomes,
        onError \in CallbackOutcomes : Resume(i, onSuccess, onError)

Spec == Init /\ [][Next]_vars

(***************************************************************************)
(* The engine under the scheduling of the event loop: a job that is ready  *)
(* runs, and the timer of a pending load fires.  Nothing obliges the       *)
(* caller to search again or module.load() to settle.                      *)
(***************************************************************************)
Fairness ==
  /\ \A k \in Loads : WF_vars(LoadTimeout(k))
  /\ \A i \in Searches : WF_vars(LoadCatch(i))
  /\ \A i \in Searches : WF_vars(PollAgain(i))
  /\ \A i \in Searches :
       WF_vars(\E outcome \in ProjectOutcomes : Project(i, outcome))
  /\ \A i \in Searches :
       WF_vars(\E onSuccess \in CallbackOutcomes, onError \in CallbackOutcomes :
                 Resume(i, onSuccess, onError))

SpecLive == Init /\ [][Next]_vars /\ Fairness

(***************************************************************************)
(* The parser as a function of its input: a text is drawn, then parsed.    *)
(***************************************************************************)
\* Numbers in the easting range, in the northing range and in neither.
EastingSamples == { 30000, 125452, 500000, 800000 }
NorthingSamples == { 5900000, 6178897, 6500000, 7800000 }
OtherSamples == { 13, 60, 900000 }
NumberSamples == EastingSamples \cup NorthingSamples \cup OtherSamples

\* What stands between the two numbers.
SeparatorSamples == { << "," >>, << " " >>, << ",", " " >>, << ";" >> }

Joined(a, separator, b) == NatText(a) \o separator \o NatText(b)

PairInputs ==
  { Joined(a, separator, b) :
      a \in NumberSamples, separator \in SeparatorSamples, b \in NumberSamples }

\* Texts of numbers of at most 90 and of at most 180 in absolute value.
LatitudeSamples ==
  { << "1", "3", ".", "5" >>, << "6", "0", ".", "5" >>, << "9", "0" >>,
    << "-", "4", "5" >> }
LongitudeSamples ==
  { << "6", "0", ".", "5" >>, << "1", "3", ".", "5" >>, << "1", "8", "0" >>,
    << "-", "1", "2", "0" >> }

GeographicInputs ==
  { a \o separator \o b :
      a \in LatitudeSamples, separator \in SeparatorSamples, b \in LongitudeSamples }

\* Labelled input: a label letter, what stands between the letter and its
\* value, and the value; the E part and the N part in either order, or with
\* an E part of another value in front.
LabelSeparatorSamples == { << "=" >>, << ":", " " >>, << " " >> }

LabelOrders == { "EN", "NE", "EEN" }

Labeled(letter, labelSeparator, value) ==
  << letter >> \o labelSeparator \o NatText(value)

LabeledInput(labelSeparator, upper, order, e, n) ==
  LET E(value) == Labeled(IF upper THEN "E" ELSE "e", labelSeparator, value)
      N(value) == Labeled(IF upper THEN "N" ELSE "n", labelSeparator, value)
  IN  CASE order = "EN" -> E(e) \o << " " >> \o N(n)
        [] order = "NE" -> N(n) \o << " " >> \o E(e)
        [] OTHER -> E(500000) \o << " " >> \o E(e) \o << " " >> \o N(n)

LabeledInputs ==
  { LabeledInput(labelSeparator, upper, order, e, n) :
      labelSeparator \in LabelSeparatorSamples, upper \in BOOLEAN,
      order \in LabelOrders, e \in {125452, 6178897}, n \in {125452, 6178897} }

\* One to three candidates with ";" or " " between them: a candidate is an
\* easting, a northing, a text that does not normalize (three separators),
\* a number with a decimal comma or an easting behind an E label.
Unnormalizable == << "1", ".", "2", ".", "3", ".", "4" >>

CandidateSamples ==
  { NatText(500000), NatText(6500000), Unnormalizable, << "1", ",", "2" >>,
    << "E", "=" >> \o NatText(500000) }

CandidateSeparators == { << ";" >>, << " " >> }

RECURSIVE JoinedWith(_, _)
JoinedWith(candidates, separator) ==
  IF Len(candidates) = 1 THEN candidates[1]
  ELSE candidates[1] \o separator \o JoinedWith(Tail(candidates), separator)

CandidateLists ==
  UNION { [1..k -> CandidateSamples] : k \in 1..3 }

CandidateInputs ==
  { JoinedWith(candidates, separator) :
      candidates \in CandidateLists, separator \in CandidateSeparators }

ParseInputs ==
  PairInputs \cup GeographicInputs \cup LabeledInputs \cup CandidateInputs

NotParsed == ParseFailure("none")

InitParse ==
  /\ Idle("parse")
  /\ parseInput \in ParseInputs
  /\ parseResult = NotParsed

Parse ==
  /\ parseResult = NotParsed
  /\ parseResult' = parseCoordinateString(parseInput)
  /\ UNCHANGED << parseInput, engineVars, sanitizeVars, detectVars, validateVars,
                  storeVars, axisVars, normalizeVars >>

NextParse == Parse

SpecParse == InitParse /\ [][NextParse]_vars

(***************************************************************************)
(* Properties of the search sequencer.                                     *)
(***************************************************************************)
\* C1: a callback is invoked on behalf of an invocation only while the
\* sequence number the invocation captured equals the shared counter: every
\* callback an invocation has made was made at a counter value equal to its
\* own sequence number, and an invocation that is in flight and no longer
\* current has made none.  The counter only grows, so an invocation that
\* was superseded before its transform settled never makes one.
C1_CallbacksOnlyWhileCurrent ==
  \A i \in Searches :
    /\ \A n \in 1..Len(calls[i]) : calls[i][n].at = inv[i].sequence
    /\ (inv[i].pc \notin {"idle", "done"} /\ inv[i].sequence # sequenceRef)
         => calls[i] = << >>

\* Invocation a was superseded by b while its transform was in flight: a has
\* ended without any callback and the success of b was delivered.
C1_Witness ==
  \E a \in Searches, b \in Searches :
    /\ a < b
    /\ inv[a].pc = "done" /\ inv[a].stage = "transform"
    /\ calls[a] = << >> /\ settled[a] = Outdated
    /\ inv[b].pc = "done" /\ inv[b].sequence = sequenceRef
    /\ Len(calls[b]) = 1 /\ calls[b][1].kind = "success"

\* C2: an invocation that is the most recently issued one has its outcome
\* delivered (a callback is invoked for it) unless a newer invocation is
\* issued, whatever the earlier invocations are doing.
C2_LatestIsDelivered ==
  \A i \in Searches :
    (inv[i].pc # "idle" /\ inv[i].sequence = sequenceRef)
      ~> (calls[i] # << >> \/ inv[i].sequence # sequenceRef)

\* The latest invocation has had its outcome delivered while an earlier
\* one is still waiting for the projection module.
C2_Witness ==
  \E a \in Searches, b \in Searches :
    /\ a < b
    /\ inv[a].pc = "awaitLoad"
    /\ inv[b].pc = "done" /\ inv[b].sequence = sequenceRef
    /\ calls[b] # << >>

(***************************************************************************)
(* Properties of the memoized load of the projection module.               *)
(***************************************************************************)
\* The load attempts whose promise is pending.
PendingLoads == { k \in Loads : loadPromise[k].state = "pending" }

\* C3: while a load is in flight every caller that needs the module awaits
\* that load, so at most one attempt is in flight and module.load() has
\* been called once per attempt, and it is not called again once a load
\* has succeeded.
C3_CallersShareOneLoad ==
  /\ Cardinality(PendingLoads) <= 1
  /\ \A i \in Searches :
       (PendingLoads # {} /\ inv[i].pc \in {"awaitLoad", "poll"})
         => (inv[i].pc = "awaitLoad" /\ inv[i].waitOn \in PendingLoads)
  /\ \A k \in Loads :
       loadPromise[k].state = "resolved" => loadCalls = k

\* C4: after a failed or timed-out load the memo holds no rejected promise
\* and no caller awaits one; the callers of the failed attempt have an
\* error as the outcome of their transform; module.load() is called again
\* only by a step in which a caller runs loadProjectionModule, and that
\* caller awaits the fresh attempt; a caller that needs the module never
\* takes up a rejected promise, and one that finds neither a memo entry nor
\* the in-progress mark calls module.load() anew and awaits that attempt.
C4_InvariantPart ==
  /\ projectionLoadCache # 0 => loadPromise[projectionLoadCache].state # "rejected"
  /\ \A i \in Searches :
       /\ inv[i].pc = "awaitLoad" => loadPromise[inv[i].waitOn].state = "pending"
       /\ inv[i].pc = "caught" =>
            /\ loadPromise[inv[i].waitOn].state = "rejected"
            /\ inv[i].result = TransformError(loadPromise[inv[i].waitOn].error)

C4_StepPart ==
  /\ loadCalls' # loadCalls =>
       /\ loadCalls' = loadCalls + 1
       /\ \E i \in Searches :
            /\ inv[i].pc \in {"idle", "poll"}
            /\ inv'[i].pc = "awaitLoad"
            /\ inv'[i].waitOn = loadCalls'
            /\ loadPromise'[loadCalls'].state = "pending"
  /\ \A i \in Searches :
       (inv[i].pc \in {"idle", "poll"} /\ inv'[i].waitOn # 0) =>
         /\ loadPromise'[inv'[i].waitOn].state # "rejected"
         /\ (projectionLoadCache = 0 /\ ~projectionLoadInProgress) =>
              (loadCalls' = loadCalls + 1 /\ inv'[i].waitOn = loadCalls')

C4_FailedLoadIsEvicted == [](C4_InvariantPart) /\ [][C4_StepPart]_vars

\* The first attempt was rejected and a later caller awaits a second one.
C4_Witness ==
  /\ loadPromise[1].state = "rejected"
  /\ \E i \in Searches :
       inv[i].pc = "awaitLoad" /\ inv[i].waitOn = 2 /\ inv[i].starter

(***************************************************************************)
(* Properties of the errors of the search sequencer.                       *)
(***************************************************************************)
\* Invocation i resumes in this step and is no longer current.
ResumesStale(i) ==
  /\ inv[i].pc \in {"loaded", "ready"}
  /\ inv'[i].pc = "done"
  /\ inv[i].sequence # sequenceRef

\* C5: an invocation that is no longer current when it resumes invokes no
\* callback and ends with coordinateSearchOutdated, also when its transform
\* failed.
C5_StaleEndsOutdated ==
  [][\A i \in Searches :
       ResumesStale(i) => (calls'[i] = calls[i] /\ settled'[i] = Outdated)]_vars

\* An invocation whose transform failed after it was superseded has ended
\* without a callback, rejected with the message of the transform's Error.
C5_Witness ==
  \E i \in Searches :
    /\ inv[i].pc = "done" /\ inv[i].stage = "transform"
    /\ inv[i].sequence < sequenceRef
    /\ calls[i] = << >>
    /\ settled[i] \notin {"pending", "resolved", Outdated}

\* C6: the value an invocation passes to the error callback without having
\* called the success callback is a key of the engine's vocabulary.
C6_ErrorsAreKeys ==
  \A i \in Searches :
    (calls[i] # << >> /\ calls[i][1].kind = "error")
      => calls[i][1].value \in ErrorKeys

\* C7: a caller that needs the projection module gets the outcome of its
\* transform, whether or not module.load() ever settles; an attempt the
\* timer ended is rejected with coordinateErrorProjectionTimeout, no caller
\* is left awaiting it and its starter is rejected with that Error.
C7_TimeoutPart ==
  \A k \in Loads :
    loadPromise[k].cause = "timeout" =>
      /\ loadPromise[k].state = "rejected"
      /\ loadPromise[k].error = "coordinateErrorProjectionTimeout"
      /\ \A i \in Searches :
           inv[i].waitOn = k =>
             /\ inv[i].pc \in {"caught", "ready"}
             /\ inv[i].result = TransformError("coordinateErrorProjectionTimeout")

C7_TransformSettles ==
  /\ [](C7_TimeoutPart)
  /\ \A i \in Searches :
       (inv[i].pc \in {"poll", "awaitLoad", "caught", "loaded"})
         ~> (inv[i].pc \in {"ready", "done"})

\* The timer has ended an attempt that two callers awaited: the one that
\* started it and one that shared it, and both are rejected.
C7_Witness ==
  \E k \in Loads, i \in Searches, j \in Searches :
    /\ loadPromise[k].cause = "timeout"
    /\ i # j /\ inv[i].waitOn = k /\ inv[j].waitOn = k
    /\ inv[i].pc = "caught" /\ inv[j].pc = "ready"
    /\ inv[j].result = TransformError("coordinateErrorProjectionTimeout")

\* C8: a call of transform that passes the guards with the EPSG code of the
\* projection equal to the wkid of the target settles with the source point
\* (x the easting, y the northing, wkid the EPSG code), calls neither
\* module.load() nor module.project() and leaves the memo, the in-progress
\* mark and the load promises as they are.
C8_StepPart ==
  \A i \in Searches :
    (/\ inv[i].pc = "idle" /\ inv'[i].pc # "idle"
     /\ inv'[i].stage = "transform"
     /\ inv'[i].epsg = inv'[i].target
     /\ ~(inv'[i].pc = "ready" /\ ~inv'[i].result.ok))
      => /\ inv'[i].pc = "ready"
         /\ inv'[i].result.point =
              [x |-> inv'[i].easting, y |-> inv'[i].northing,
               wkid |-> inv'[i].epsg, projected |-> FALSE]
         /\ inv'[i].result.point.wkid = inv'[i].target
         /\ inv'[i].waitOn = 0
         /\ UNCHANGED << loadCalls, projectCalls, projectionLoadCache,
                         projectionLoadInProgress, loadPromise >>

C8_SameReferenceReturnsSource == [][C8_StepPart]_vars

\* A transform between equal references has settled with the source point
\* while a load of the module is in flight and memoized.
C8_Witness ==
  \E i \in Searches :
    /\ inv[i].pc = "ready" /\ inv[i].result.ok
    /\ inv[i].result.point =
         [x |-> Int2Num(500000), y |-> Int2Num(6500000), wkid |-> 3006,
          projected |-> FALSE]
    /\ inv[i].target = 3006
    /\ projectionLoadCache # 0
    /\ loadPromise[projectionLoadCache].state = "pending"

(***************************************************************************)
(* Properties of the parser.                                               *)
(***************************************************************************)
\* C9: an easting-range number, a comma and a northing-range number parse
\* to that easting and that northing with the format CommaSeparated.
C9_CommaPairParses ==
  \A e \in EastingSamples, n \in NorthingSamples :
    (parseInput = Joined(e, << "," >>, n) /\ parseResult # NotParsed)
      => /\ parseResult.success
         /\ parseResult.easting = Int2Num(e)
         /\ parseResult.northing = Int2Num(n)
         /\ parseResult.format = "comma"

\* C10: a number valid only as a northing followed by a number valid only
\* as an easting parses with the order corrected, whatever separates them.
C10_OrderIsCorrected ==
  \A n \in NorthingSamples, e \in EastingSamples, separator \in SeparatorSamples :
    (parseInput = Joined(n, separator, e) /\ parseResult # NotParsed)
      => /\ parseResult.success
         /\ parseResult.easting = Int2Num(e)
         /\ parseResult.northing = Int2Num(n)

\* C11: two unlabelled numbers that look like geographic coordinates (the
\* first at most 90 and the second at most 180 in absolute value) fail with
\* coordinateErrorNotSweref, whatever separates them.
C11_GeographicIsNotSweref ==
  \A a \in LatitudeSamples, separator \in SeparatorSamples, b \in LongitudeSamples :
    (parseInput = a \o separator \o b /\ parseResult # NotParsed)
      => parseResult = ParseFailure("coordinateErrorNotSweref")

\* C12: input with an E-labelled and an N-labelled value gives the E value
\* as easting and the N value as northing with the format Labeled, whatever
\* the order of the two parts and with the last value of a repeated label;
\* the values are never exchanged, so the parse succeeds exactly when the E
\* value is in the easting range and the N value in the northing range.
C12_LabelsDecideAxes ==
  \A labelSeparator \in LabelSeparatorSamples, upper \in BOOLEAN,
     order \in LabelOrders, e \in {125452, 6178897}, n \in {125452, 6178897} :
    (/\ parseInput = LabeledInput(labelSeparator, upper, order, e, n)
     /\ parseResult # NotParsed)
      => /\ parseResult.success <=>
              (e \in MIN_EASTING..MAX_EASTING /\ n \in MIN_NORTHING..MAX_NORTHING)
         /\ parseResult.success =>
              /\ parseResult.easting = Int2Num(e)
              /\ parseResult.northing = Int2Num(n)
              /\ parseResult.format = "labeled"

\* What parseCoordinateString decides: without the sanitized text.
Decision(result) ==
  [success |-> result.success, error |-> result.error,
   easting |-> result.easting, northing |-> result.northing,
   format |-> result.format, warning |-> result.warning]

\* C13, as stated: input with fewer or more than two candidates, or with a
\* candidate that does not normalize, fails with coordinateErrorParse.
C13_ExactlyTwoCandidates ==
  \A candidates \in CandidateLists, separator \in CandidateSeparators :
    (/\ parseInput = JoinedWith(candidates, separator)
     /\ parseResult # NotParsed
     /\ \/ Len(candidates) # 2
        \/ \E i \in 1..Len(candidates) : candidates[i] = Unnormalizable)
      => parseResult = ParseFailure("coordinateErrorParse")

\* C13, amended: unlabelled parsing requires two numeric candidates that
\* both normalize, and takes the first two: input with fewer than two
\* candidates, or whose first or second candidate does not normalize, fails
\* with coordinateErrorParse.
C13_FirstTwoCandidates ==
  \A candidates \in CandidateLists, separator \in CandidateSeparators :
    (/\ parseInput = JoinedWith(candidates, separator)
     /\ parseResult # NotParsed
     /\ \/ Len(candidates) < 2
        \/ candidates[1] = Unnormalizable
        \/ candidates[2] = Unnormalizable)
      => parseResult = ParseFailure("coordinateErrorParse")

\* An input of three candidates, the second of which does not normalize, has
\* failed with coordinateErrorParse.
C13_Witness ==
  /\ parseInput = JoinedWith(<< NatText(500000), Unnormalizable, NatText(6500000) >>,
                             << ";" >>)
  /\ parseResult = ParseFailure("coordinateErrorParse")

(***************************************************************************)
(* The sanitizer applied again to its own output.                          *)
(***************************************************************************)
MaxSanitize == 2

SanitizeAlphabet == { "<", ">", "1", " ", "\t", "NBSP", "EURO" }

ShortTexts == UNION { [1..k -> SanitizeAlphabet] : k \in 0..3 }

\* Texts around the length limit: a run of digits, then a tail.
LongTexts ==
  { [i \in 1..n |-> "1"] \o tail :
      n \in (COORDINATE_INPUT_MAX_LENGTH - 2)..COORDINATE_INPUT_MAX_LENGTH,
      tail \in { << >>, << " ", "5" >>, << "\t", " ", "5" >>, << "<", "b", ">", "5" >> } }

SanitizeInputs == ShortTexts \cup LongTexts

InitSanitize ==
  /\ Idle("sanitize")
  /\ sanitizeValue \in SanitizeInputs
  /\ sanitizeCount = 0

\* value = sanitizeCoordinateInput(value)
Sanitize ==
  /\ sanitizeCount < MaxSanitize
  /\ sanitizeValue' = sanitizeCoordinateInput(sanitizeValue)
  /\ sanitizeCount' = sanitizeCount + 1
  /\ UNCHANGED << engineVars, parseVars, detectVars, validateVars, storeVars,
                  axisVars, normalizeVars >>

SpecSanitize == InitSanitize /\ [][Sanitize]_vars

\* C14: the sanitizer is idempotent: sanitizing a text that is already the
\* output of the sanitizer returns it unchanged, whatever the original text
\* held (tags, control characters, runs of whitespace, more than 200
\* characters).
C14_SanitizeIsIdempotent ==
  [][sanitizeCount >= 1 => sanitizeValue' = sanitizeValue]_vars

\* A text longer than the limit has been sanitized once.
C14_Witness ==
  /\ sanitizeCount = 1
  /\ Len(sanitizeValue) = COORDINATE_INPUT_MAX_LENGTH
(***************************************************************************)
(* The projection detector on its own.                                     *)
(***************************************************************************)
\* Eastings at and next to the edges of the projections and of the warning
\* buffer, two of them with decimals.
DetectEastings ==
  { Int2Num(e) : e \in { 49999, 50000, 54999, 55000, 55001, 150000, 244999,
                         245000, 245001, 250000, 250001, 299999, 300000,
                         304999, 305000, 305001, 500000, 694999, 695000,
                         695001, 700000, 700001 } }
  \cup { MkNum(1, 55000, << "5" >>), MkNum(1, 694999, << "5" >>), Null }

DetectNorthings ==
  { Int2Num(n) : n \in { 6099999, 6100000, 6500000, 7700000, 7700001 } }

\* Map centres: none, a longitude (hundredths of a degree), an x in WGS84,
\* an x in another reference, a longitude off the globe.
DetectMapCenters ==
  { [point |-> FALSE, hasLongitude |-> FALSE, longitude |-> 0, x |-> 0, wkid |-> 0] }
  \cup { [point |-> TRUE, hasLongitude |-> TRUE, longitude |-> lon, x |-> 0,
          wkid |-> 3006] : lon \in { -1000, 0, 1200, 1275, 1290, 1400, 1580,
                                     1800, 2325, 3000, 18001 } }
  \cup { [point |-> TRUE, hasLongitude |-> FALSE, longitude |-> 0, x |-> x,
          wkid |-> wkid] : x \in { 1650, 500000 }, wkid \in { 4326, 3006 } }

DetectInputs ==
  [easting : DetectEastings, northing : DetectNorthings,
   mapCenter : DetectMapCenters, preference : { "auto", "tm", "zone" }]

\* detectProjection has not run: a result of the same shape that it never
\* returns.
NotDetected ==
  [projection |-> NoProjection, confidence |-> -1, alternatives |-> << >>,
   warnings |-> << >>]

InitDetect ==
  /\ Idle("detect")
  /\ detectInput \in DetectInputs
  /\ detectResult = NotDetected

\* detectResult = detectProjection(detectInput)
Detect ==
  /\ detectResult = NotDetected
  /\ detectResult' = detectProjection(detectInput.easting, detectInput.northing,
                                      detectInput.mapCenter, detectInput.preference)
  /\ UNCHANGED << detectInput, engineVars, parseVars, sanitizeVars, validateVars,
                  storeVars, axisVars, normalizeVars >>

SpecDetect == InitDetect /\ [][Detect]_vars
\* The zones whose bounds hold the pair, by their positions in the table.
MatchingZoneIndexes(easting, northing) ==
  { i \in 1..Len(SWEREF99_ZONES) :
      /\ isInRange(easting, SWEREF99_ZONES[i].bounds.eMin, SWEREF99_ZONES[i].bounds.eMax)
      /\ isInRange(northing, SWEREF99_ZONES[i].bounds.nMin, SWEREF99_ZONES[i].bounds.nMax) }

\* The number of the first rule of claim C15 that applies to the input.
ApplicableRule(input) ==
  LET Rule(zoneCount, tmRange) ==
        IF input.preference = "zone" /\ zoneCount >= 1 THEN 1
        ELSE IF input.preference = "tm" /\ tmRange THEN 2
        ELSE IF zoneCount = 1 THEN 3
        ELSE IF zoneCount > 1 THEN 4
        ELSE IF tmRange THEN 5
        ELSE 6
  IN  Rule(Cardinality(MatchingZoneIndexes(input.easting, input.northing)),
           isInRange(input.easting, 300000, 700000))

\* The outcome that rule prescribes.
RuleOutcome(rule, input, result) ==
  LET zones == { SWEREF99_ZONES[i] :
                   i \in MatchingZoneIndexes(input.easting, input.northing) }
      Others(list) == { list[i] : i \in 1..Len(list) }
      TopRanked ==
        /\ result.projection \in zones
        /\ result.projection =
             rankZoneCandidates(findMatchingZones(input.easting, input.northing),
                                getLonFromPoint(input.mapCenter))[1]
        /\ Others(result.alternatives) = zones \ { result.projection }
        /\ Len(result.alternatives) = Cardinality(zones) - 1
  IN  CASE rule = 1 -> TopRanked /\ result.confidence = 100
        [] rule = 2 -> /\ result.projection = SWEREF99_TM
                       /\ result.confidence = 90
                       /\ Others(result.alternatives) = zones
                       /\ Len(result.alternatives) = Cardinality(zones)
        [] rule = 3 -> /\ zones = { result.projection }
                       /\ result.confidence = 100
                       /\ result.alternatives = << >>
        [] rule = 4 -> /\ TopRanked
                       /\ result.confidence =
                            IF getLonFromPoint(input.mapCenter) # NoLon THEN 85 ELSE 70
        [] rule = 5 -> /\ result.projection = SWEREF99_TM
                       /\ result.confidence = 60
                       /\ result.alternatives = << >>
        [] rule = 6 -> /\ result.projection = NoProjection
                       /\ result.confidence = 0
                       /\ result.alternatives = << >>
                       /\ result.warnings = << "coordinateErrorNoProjection" >>

\* C15: detectProjection returns the outcome of the first applicable rule,
\* in the order: (1) preference zone and a zone candidate: the top-ranked
\* zone, confidence 1.0, the rest as alternatives; (2) preference TM and
\* easting in [300000, 700000]: TM, 0.9, the zone candidates as
\* alternatives; (3) one zone candidate: that zone, 1.0, no alternatives;
\* (4) several: the top-ranked zone, 0.85 with a known map longitude and
\* 0.7 without, the rest as alternatives; (5) easting in [300000, 700000]:
\* TM, 0.6; (6) otherwise no projection, confidence 0 and the warning
\* coordinateErrorNoProjection.
C15_FirstApplicableRule ==
  detectResult # NotDetected
    => RuleOutcome(ApplicableRule(detectInput), detectInput, detectResult)

\* Preference TM with an easting outside the TM range: rule 2 is passed
\* over and rule 4 decides, with a known map longitude.
C15_Witness ==
  /\ detectResult # NotDetected
  /\ detectInput.preference = "tm"
  /\ ApplicableRule(detectInput) = 4
  /\ detectResult.confidence = 85
  /\ detectResult.projection.type = "zone"
\* C16: when two or more zone candidates match and the map longitude is
\* known, detectProjection selects one of the candidates, and no other
\* candidate has a central meridian strictly closer to that longitude.
C16_ClosestMeridianSelected ==
  LET Closest(candidates, longitude) ==
        /\ \E i \in candidates : detectResult.projection = SWEREF99_ZONES[i]
        /\ \A i \in candidates :
             Abs(SWEREF99_ZONES[i].centralMeridian - longitude)
               >= Abs(detectResult.projection.centralMeridian - longitude)
  IN  /\ detectResult # NotDetected
      /\ Cardinality(MatchingZoneIndexes(detectInput.easting, detectInput.northing)) >= 2
      /\ getLonFromPoint(detectInput.mapCenter) # NoLon
      => Closest(MatchingZoneIndexes(detectInput.easting, detectInput.northing),
                 getLonFromPoint(detectInput.mapCenter))

\* Twelve candidates and a map longitude of 15.8 degrees: zone 15 45, the
\* seventh of the table, is selected.
C16_Witness ==
  /\ detectResult # NotDetected
  /\ Cardinality(MatchingZoneIndexes(detectInput.easting, detectInput.northing)) >= 2
  /\ getLonFromPoint(detectInput.mapCenter) = 1580
  /\ detectResult.projection = SWEREF99_ZONES[7]
\* C17: for a projection chosen by detectProjection the warning
\* coordinateWarningNearBoundary is attached exactly when the easting is
\* within 5000 units of the projection's eMin or eMax: always at exactly
\* 5000 units, never at 5001.
C17_NearBoundaryWarning ==
  LET Near(easting, edge) == isInRange(easting, edge - 5000, edge + 5000)
      Warned == \E i \in 1..Len(detectResult.warnings) :
                  detectResult.warnings[i] = "coordinateWarningNearBoundary"
  IN  detectResult # NotDetected /\ detectResult.projection # NoProjection
      => (Warned <=> \/ Near(detectInput.easting, detectResult.projection.bounds.eMin)
                     \/ Near(detectInput.easting, detectResult.projection.bounds.eMax))

\* TM chosen for an easting exactly 5000 units inside its eastern edge,
\* with the warning.
C17_Witness ==
  /\ detectResult # NotDetected
  /\ detectResult.projection = SWEREF99_TM
  /\ detectInput.easting = Int2Num(695000)
  /\ detectResult.warnings = << "coordinateWarningNearBoundary" >>
(***************************************************************************)
(* The bounds validator on its own.                                        *)
(***************************************************************************)
\* Null stands for the values that are not finite numbers.
ValidateEastings ==
  { Int2Num(e) : e \in { 29999, 30000, 49999, 50000, 55000, 250000, 250001,
                         299999, 300000, 500000, 700000, 700001, 800000,
                         800001 } }
  \cup { MkNum(1, 800000, << "5" >>), Int2Num(-500000), Null }

ValidateNorthings ==
  { Int2Num(n) : n \in { 5899999, 5900000, 6099999, 6100000, 6500000, 7700000,
                         7700001, 7800000, 7800001 } }
  \cup { MkNum(1, 7700000, << "2", "5" >>), Null }

ValidateProjections ==
  { NoProjection, SWEREF99_TM, SWEREF99_ZONES[1], SWEREF99_ZONES[12] }

ValidateInputs ==
  [easting : ValidateEastings, northing : ValidateNorthings,
   projection : ValidateProjections]

\* validateCoordinates has not run: a result of the same shape that it
\* never returns.
NotValidated == [valid |-> TRUE, errors |-> << "none" >>, warnings |-> << >>]

InitValidate ==
  /\ Idle("validate")
  /\ validateInput \in ValidateInputs
  /\ validateResult = NotValidated

\* validateResult = validateCoordinates(validateInput)
Validate ==
  /\ validateResult = NotValidated
  /\ validateResult' = validateCoordinates(validateInput.easting,
                                           validateInput.northing,
                                           validateInput.projection)
  /\ UNCHANGED << validateInput, engineVars, parseVars, sanitizeVars, detectVars,
                  storeVars, axisVars, normalizeVars >>

SpecValidate == InitValidate /\ [][Validate]_vars

\* C18: validateCoordinates reports coordinateErrorInvalidNumber for a
\* non-finite easting or northing; otherwise, with a projection, it reports
\* coordinateErrorOutOfBounds exactly when the easting or the northing is
\* outside the projection's bounds, and without a projection it reports
\* coordinateErrorOutOfRange exactly when the pair is outside easting
\* [30000, 800000], northing [5900000, 7800000]; the result is valid exactly
\* when it reports no error.
C18_ValidationErrors ==
  LET Reports(key) == \E i \in 1..Len(validateResult.errors) :
                        validateResult.errors[i] = key
      Inside(eMin, eMax, nMin, nMax) ==
        /\ isInRange(validateInput.easting, eMin, eMax)
        /\ isInRange(validateInput.northing, nMin, nMax)
      InsideProjection(bounds) ==
        Inside(bounds.eMin, bounds.eMax, bounds.nMin, bounds.nMax)
  IN  validateResult # NotValidated =>
        /\ validateResult.valid <=> validateResult.errors = << >>
        /\ IF IsNull(validateInput.easting) \/ IsNull(validateInput.northing)
             THEN Reports("coordinateErrorInvalidNumber")
           ELSE IF validateInput.projection # NoProjection
             THEN /\ Reports("coordinateErrorOutOfBounds")
                       <=> ~InsideProjection(validateInput.projection.bounds)
                  /\ ~Reports("coordinateErrorInvalidNumber")
                  /\ ~Reports("coordinateErrorOutOfRange")
           ELSE /\ Reports("coordinateErrorOutOfRange")
                     <=> ~Inside(30000, 800000, 5900000, 7800000)
                /\ ~Reports("coordinateErrorInvalidNumber")
                /\ ~Reports("coordinateErrorOutOfBounds")

\* A pair inside the range of SWEREF 99 and outside the bounds of the given
\* zone has been rejected with coordinateErrorOutOfBounds.
C18_Witness ==
  /\ validateResult # NotValidated
  /\ validateInput.projection = SWEREF99_ZONES[1]
  /\ validateInput.easting = Int2Num(500000)
  /\ validateResult.errors = << "coordinateErrorOutOfBounds" >>
  /\ ~validateResult.valid
(***************************************************************************)
(* Redux store of the widget (extensions/store).  The state holds one       *)
(* entry per widget id; an entry that is absent from byId is a record with  *)
(* present = FALSE.                                                         *)
(***************************************************************************)
Widgets == { "widget-1", "widget-2" }

\* errorMessage: null
NoErrorMessage == "null"

\* coordinateResult: null, as a record of the same shape.
NoCoordinateResult == [projectionId |-> "", easting |-> 0, northing |-> 0]

createDefaultWidgetState ==
  [present |-> TRUE, results |-> << >>, activeSourceIndex |-> 0,
   isSearching |-> FALSE, lastSearchTerm |-> "", errorMessage |-> NoErrorMessage,
   coordinateResult |-> NoCoordinateResult, isCoordinateInput |-> FALSE]

\* byId[widgetId] is undefined.
NoEntry == [createDefaultWidgetState EXCEPT !.present = FALSE]

emptyGlobalState == [defined |-> TRUE, byId |-> [w \in Widgets |-> NoEntry]]

\* The reducer called with an undefined state.
UndefinedState == [defined |-> FALSE, byId |-> [w \in Widgets |-> NoEntry]]

\* The entry of every widget replaced.
SetEvery(state, widgetId, next) == [state EXCEPT !.byId = [w \in Widgets |-> next]]

\* state.setIn(["byId", widgetId], next)
SetIn(state, widgetId, next) == [state EXCEPT !.byId[widgetId] = next]

ensureWidgetEntry(state, widgetId) ==
  LET Ensured(object) ==
        IF object.byId[widgetId].present THEN object
        ELSE SetIn(object, widgetId, createDefaultWidgetState)
  IN  Ensured(IF state.defined THEN state ELSE emptyGlobalState)

\* The results dropped.
dropResults(results) == << >>

\* SeamlessImmutable(results ?? [])
mapResults(results) == results

\* A SetSearching case that leaves the error message as it is.
reduceSetSearchingOnly(widgetState, action) ==
  [widgetState EXCEPT !.isSearching = action.value]

\* The case SearchActionType.SetSearching of the reducer.
reduceSetSearching(widgetState, action) ==
  [widgetState EXCEPT !.isSearching = action.value,
                      !.errorMessage = NoErrorMessage]

\* reducer(inputState = emptyGlobalState, action); after ensureWidgetEntry
\* the entry of the widget exists, so "if (!widgetState) return state" is
\* never taken.
reducer(inputState, action) ==
  LET Reduced(state, widgetState) ==
        CASE action.type = "SetResults" ->
               SetIn(state, action.widgetId,
                     [widgetState EXCEPT !.results = mapResults(action.results),
                                         !.isSearching = FALSE])
          [] action.type = "ClearResults" ->
               SetIn(state, action.widgetId,
                     [widgetState EXCEPT !.results = mapResults(<< >>),
                                         !.lastSearchTerm = "",
                                         !.isSearching = FALSE,
                                         !.errorMessage = NoErrorMessage])
          [] action.type = "SetActiveSource" ->
               SetIn(state, action.widgetId,
                     [widgetState EXCEPT !.activeSourceIndex = action.index])
          [] action.type = "SetSearching" ->
               SetIn(state, action.widgetId, reduceSetSearching(widgetState, action))
          [] action.type = "SetLastSearchTerm" ->
               SetIn(state, action.widgetId,
                     [widgetState EXCEPT !.lastSearchTerm = action.value])
          [] action.type = "SetError" ->
               SetIn(state, action.widgetId,
                     [widgetState EXCEPT !.errorMessage = action.message,
                                         !.isSearching = FALSE])
          [] action.type = "SetCoordinateInput" ->
               SetIn(state, action.widgetId,
                     [widgetState EXCEPT
                        !.isCoordinateInput = action.isCoordinate,
                        !.coordinateResult =
                           IF action.isCoordinate THEN widgetState.coordinateResult
                           ELSE NoCoordinateResult])
          [] action.type = "SetCoordinateResult" ->
               SetIn(state, action.widgetId,
                     [widgetState EXCEPT !.coordinateResult = action.result])
          [] action.type = "ClearCoordinateResult" ->
               SetIn(state, action.widgetId,
                     [widgetState EXCEPT !.coordinateResult = NoCoordinateResult])
          [] OTHER -> state
      Ensured(state) == Reduced(state, state.byId[action.widgetId])
      Defaulted(state) ==
        IF action.widgetId = "" THEN state
        ELSE Ensured(ensureWidgetEntry(state, action.widgetId))
  IN  Defaulted(IF inputState.defined THEN inputState ELSE emptyGlobalState)

\* Arguments of the action creators.  A widget id of "" is a missing id:
\* the reducer returns before it looks at the type of the action, so the
\* missing id is tried with setResults and clearResults only.
WidgetIds == Widgets \cup { "" }

ResultLists == { << >>, << "A", "B" >> }

\* Indexes as numbers, Null for a value that is not a finite number.
SourceIndexes ==
  { Int2Num(0), Int2Num(1), MkNum(1, 1, << "5" >>), Int2Num(-1),
    MkNum(-1, 0, << "5" >>), Null }

SearchTerms == { "", "Storgatan 1" }

ErrorMessages == { NoErrorMessage, "searchError" }

\* Results handed to setCoordinateResult: null, one without a projection
\* id, a complete one.
CoordinateResults ==
  { [null |-> TRUE, projectionId |-> "", easting |-> Null, northing |-> Null],
    [null |-> FALSE, projectionId |-> "", easting |-> Int2Num(500000),
     northing |-> Int2Num(6500000)],
    [null |-> FALSE, projectionId |-> "sweref99-tm", easting |-> Int2Num(500000),
     northing |-> Int2Num(6500000)] }

NoAction == [type |-> "none", widgetId |-> ""]

InitStore ==
  /\ Idle("store")
  /\ store \in { UndefinedState, emptyGlobalState }
  /\ lastAction = NoAction

\* What the store leaves alone.
outsideStore ==
  << engineVars, parseVars, sanitizeVars, detectVars, validateVars, axisVars,
     normalizeVars >>

\* store = searchReducer(store, action)
Dispatch(action) ==
  /\ store' = reducer(store, action)
  /\ lastAction' = action

\* searchActions.setResults(results, widgetId); results is an array here.
SetResults ==
  \E results \in ResultLists, widgetId \in WidgetIds :
    /\ Dispatch([type |-> "SetResults", results |-> results, widgetId |-> widgetId])
    /\ UNCHANGED outsideStore

\* searchActions.clearResults(widgetId)
ClearResults ==
  \E widgetId \in WidgetIds :
    /\ Dispatch([type |-> "ClearResults", widgetId |-> widgetId])
    /\ UNCHANGED outsideStore

\* The index as it is given, truncated, when it is a finite number.
setActiveSourceUnclamped(index, widgetId) ==
  [type |-> "SetActiveSource",
   index |-> IF IsNull(index) THEN 0 ELSE index.sgn * index.ip,
   widgetId |-> widgetId]

\* searchActions.setActiveSource(index, widgetId):
\* Math.max(0, Math.floor(index)) for a finite number, 0 otherwise.
setActiveSource(index, widgetId) ==
  [type |-> "SetActiveSource",
   index |-> IF IsNull(index) \/ index.sgn < 0 THEN 0 ELSE index.ip,
   widgetId |-> widgetId]

SetActiveSource ==
  \E index \in SourceIndexes, widgetId \in Widgets :
    /\ Dispatch(setActiveSource(index, widgetId))
    /\ UNCHANGED outsideStore

\* searchActions.setSearching(value, widgetId)
SetSearching ==
  \E value \in BOOLEAN, widgetId \in Widgets :
    /\ Dispatch([type |-> "SetSearching", value |-> value, widgetId |-> widgetId])
    /\ UNCHANGED outsideStore

\* searchActions.setLastSearchTerm(value, widgetId); value is a string here.
SetLastSearchTerm ==
  \E value \in SearchTerms, widgetId \in Widgets :
    /\ Dispatch([type |-> "SetLastSearchTerm", value |-> value, widgetId |-> widgetId])
    /\ UNCHANGED outsideStore

\* searchActions.setError(message, widgetId); message is null or a string.
SetError ==
  \E message \in ErrorMessages, widgetId \in Widgets :
    /\ Dispatch([type |-> "SetError", message |-> message, widgetId |-> widgetId])
    /\ UNCHANGED outsideStore

\* searchActions.setCoordinateInput(isCoordinate, widgetId)
SetCoordinateInput ==
  \E isCoordinate \in BOOLEAN, widgetId \in Widgets :
    /\ Dispatch([type |-> "SetCoordinateInput", isCoordinate |-> isCoordinate,
                 widgetId |-> widgetId])
    /\ UNCHANGED outsideStore

\* searchActions.setCoordinateResult(result, widgetId): null for a missing
\* result or projection id, 0 for a value that is not a finite number.  Of
\* the result only the projection id and the pair are kept here.
SetCoordinateResult ==
  \E result \in CoordinateResults, widgetId \in Widgets :
    /\ Dispatch([type |-> "SetCoordinateResult",
                 result |-> IF result.null \/ result.projectionId = ""
                              THEN NoCoordinateResult
                            ELSE [projectionId |-> result.projectionId,
                                  easting |-> IF IsNull(result.easting) THEN 0
                                              ELSE result.easting.ip,
                                  northing |-> IF IsNull(result.northing) THEN 0
                                               ELSE result.northing.ip],
                 widgetId |-> widgetId])
    /\ UNCHANGED outsideStore

\* searchActions.clearCoordinateResult(widgetId)
ClearCoordinateResult ==
  \E widgetId \in Widgets :
    /\ Dispatch([type |-> "ClearCoordinateResult", widgetId |-> widgetId])
    /\ UNCHANGED outsideStore

NextStore ==
  \/ SetResults
  \/ ClearResults
  \/ SetActiveSource
  \/ SetSearching
  \/ SetLastSearchTerm
  \/ SetError
  \/ SetCoordinateInput
  \/ SetCoordinateResult
  \/ ClearCoordinateResult

SpecStore == InitStore /\ [][NextStore]_vars
\* C19: after clearResults for a widget, the widget has no results, an
\* empty lastSearchTerm, isSearching false and no error message; its
\* activeSourceIndex, isCoordinateInput and coordinateResult are what they
\* were (the defaults when the widget had no entry), and the entry of every
\* other widget is unchanged.
C19_ClearResultsFrame ==
  [][
  LET Cleared(before, after) ==
        /\ after.present
        /\ after.results = << >>
        /\ after.lastSearchTerm = ""
        /\ ~after.isSearching
        /\ after.errorMessage = NoErrorMessage
        /\ after.activeSourceIndex = before.activeSourceIndex
        /\ after.isCoordinateInput = before.isCoordinateInput
        /\ after.coordinateResult = before.coordinateResult
      Frame(widgetId) ==
        /\ Cleared(IF store.byId[widgetId].present THEN store.byId[widgetId]
                   ELSE createDefaultWidgetState,
                   store'.byId[widgetId])
        /\ \A other \in Widgets \ { widgetId } :
             store'.byId[other] = store.byId[other]
  IN  lastAction'.type = "ClearResults" /\ lastAction'.widgetId \in Widgets
        => Frame(lastAction'.widgetId)
  ]_vars

\* clearResults has been handled for widget-1, which keeps a source index,
\* its coordinate flag and a coordinate result, while widget-2 keeps its
\* results and its search term.
C19_Witness ==
  /\ lastAction.type = "ClearResults"
  /\ lastAction.widgetId = "widget-1"
  /\ store.byId["widget-1"].results = << >>
  /\ store.byId["widget-1"].activeSourceIndex = 1
  /\ store.byId["widget-1"].isCoordinateInput
  /\ store.byId["widget-1"].coordinateResult # NoCoordinateResult
  /\ store.byId["widget-2"].results = << "A", "B" >>
  /\ store.byId["widget-2"].lastSearchTerm = "Storgatan 1"

\* C20: after setResults(results) for a widget, from any state of the
\* store (undefined, or without an entry for the widget, which is then
\* created from the defaults), the widget's results are the given list and
\* its isSearching is false.
C20_SetResultsStored ==
  [][
  LET Stored(widgetId, results) ==
        /\ store'.defined
        /\ store'.byId[widgetId].present
        /\ store'.byId[widgetId].results = results
        /\ ~store'.byId[widgetId].isSearching
        /\ ~store.defined \/ ~store.byId[widgetId].present
             => store'.byId[widgetId]
                  = [createDefaultWidgetState EXCEPT !.results = results]
  IN  lastAction'.type = "SetResults" /\ lastAction'.widgetId \in Widgets
        => Stored(lastAction'.widgetId, lastAction'.results)
  ]_vars

\* setResults with two results has been handled for widget-1 in a store
\* that has no entry for widget-2: the entry of widget-1 is the default
\* one with these results.
C20_Witness ==
  /\ lastAction.type = "SetResults"
  /\ lastAction.widgetId = "widget-1"
  /\ lastAction.results = << "A", "B" >>
  /\ ~store.byId["widget-2"].present
  /\ store.byId["widget-1"]
       = [createDefaultWidgetState EXCEPT !.results = << "A", "B" >>]
\* C21: after setActiveSource(i) for a widget its activeSourceIndex is i
\* when i is a non-negative integer and 0 when i is negative or not a finite
\* number, and a non-negative integer for every i; the activeSourceIndex of
\* every widget is a non-negative integer after every action.
C21_ActiveSourceIndex ==
  [][
  LET Stored(index, after) ==
        /\ index.sgn = 1 /\ index.fp = << >> => after = index.ip
        /\ IsNull(index) \/ index.sgn = -1 => after = 0
        /\ after \in Nat
  IN  /\ \A widgetId \in Widgets : store'.byId[widgetId].activeSourceIndex \in Nat
      /\ lastAction'.type = "SetActiveSource"
           => \A index \in SourceIndexes :
                lastAction' = setActiveSource(index, lastAction'.widgetId)
                  => Stored(index,
                            store'.byId[lastAction'.widgetId].activeSourceIndex)
  ]_vars

\* setActiveSource has stored the index 1 for widget-1 while widget-2 has
\* another one.
C21_Witness ==
  /\ lastAction = setActiveSource(Int2Num(1), "widget-1")
  /\ store.byId["widget-1"].activeSourceIndex = 1
  /\ store.byId["widget-2"].present
  /\ store.byId["widget-2"].activeSourceIndex = 0
\* C22: an invocation of searchCoordinates invokes at most one of onSuccess
\* and onError, and at most once, also when the invoked callback throws.
C22_AtMostOneCallback ==
  \A i \in Searches : Len(calls[i]) <= 1
\* C23: an eviction removes from the memo only the entry of an attempt that
\* has failed or timed out, never the entry of a newer attempt that is still
\* pending, and at most one load attempt is unsettled at any time.
C23_EvictionStep ==
  (projectionLoadCache # 0 /\ projectionLoadCache' = 0)
    => loadPromise'[projectionLoadCache].state = "rejected"

C23_EvictsOnlyFailedAttempt ==
  [](Cardinality(PendingLoads) <= 1) /\ [][C23_EvictionStep]_vars
\* C24: wherever another caller can run, a module that is marked as being
\* loaded has a promise in the memo, so no caller is ever in the 10 ms wait
\* of loadProjectionModule.
C24_MarkImpliesMemo ==
  /\ projectionLoadInProgress => CachedPromise(projectionLoadCache) # 0
  /\ \A i \in Searches : inv[i].pc # "poll"
(***************************************************************************)
(* The axis-order resolver on its own.                                     *)
(***************************************************************************)
\* Numbers at and next to the edges of the easting range, of the northing
\* range and of the geographic test, with decimals, negative ones and zero.
AxisNumbers ==
  { Int2Num(n) : n \in { 0, 60, 90, 91, 180, 181, 29999, 30000, 500000, 800000,
                         800001, 5899999, 5900000, 6500000, 7800000, 7800001,
                         -60, -500000, -6500000 } }
  \cup { MkNum(1, 90, << "5" >>), MkNum(1, 800000, << "5" >>),
         MkNum(1, 7800000, << "2", "5" >>), MkNum(1, 29999, << "9" >>) }

AxisInputs == [first : AxisNumbers, second : AxisNumbers]

\* detectAxisOrder has not run: a result of the same shape that it never
\* returns.
NotResolved == [NoAxisOrder EXCEPT !.warning = "pending"]

InitAxis ==
  /\ Idle("axis")
  /\ axisInput \in AxisInputs
  /\ axisResult = NotResolved

\* axisResult = detectAxisOrder(first, second)
ResolveAxis ==
  /\ axisResult = NotResolved
  /\ axisResult' = detectAxisOrder(axisInput.first, axisInput.second)
  /\ UNCHANGED << axisInput, engineVars, parseVars, sanitizeVars, detectVars,
                  validateVars, storeVars, normalizeVars >>

SpecAxis == InitAxis /\ [][ResolveAxis]_vars
\* C25: for a pair (a, b) that does not look geographic, with easting-valid
\* = within [30000, 800000] and northing-valid = within [5900000, 7800000],
\* detectAxisOrder returns (a, b) when a is easting-only and b
\* northing-only, (b, a) in the mirrored case, (a, b) when a is
\* easting-valid and b is neither, (b, a) when b is easting-valid and a is
\* neither, and null in every other case.
C25_AxisOrderCases ==
  LET IsEasting(v) == isInRange(v, 30000, 800000)
      IsNorthing(v) == isInRange(v, 5900000, 7800000)
      EastingOnly(v) == IsEasting(v) /\ ~IsNorthing(v)
      NorthingOnly(v) == IsNorthing(v) /\ ~IsEasting(v)
      Neither(v) == ~IsEasting(v) /\ ~IsNorthing(v)
      Is(easting, northing) ==
        /\ axisResult.found
        /\ axisResult.easting = easting
        /\ axisResult.northing = northing
      Cases(a, b) ==
        IF EastingOnly(a) /\ NorthingOnly(b) THEN Is(a, b)
        ELSE IF EastingOnly(b) /\ NorthingOnly(a) THEN Is(b, a)
        ELSE IF IsEasting(a) /\ Neither(b) THEN Is(a, b)
        ELSE IF IsEasting(b) /\ Neither(a) THEN Is(b, a)
        ELSE ~axisResult.found
  IN  (axisResult # NotResolved
       /\ ~isLikelyWgs84(axisInput.first, axisInput.second))
        => Cases(axisInput.first, axisInput.second)

\* A northing followed by an easting has been resolved to the swapped pair.
C25_Witness ==
  /\ axisInput = [first |-> Int2Num(6500000), second |-> Int2Num(500000)]
  /\ axisResult = AxisOrder(Int2Num(500000), Int2Num(6500000), NoWarning)
\* The zones detectProjection returned, the selected one first.
RankedZones(result) == << result.projection >> \o result.alternatives

\* The position of a zone in the table.
TableIndex(zone) == CHOOSE i \in 1..Len(SWEREF99_ZONES) : SWEREF99_ZONES[i] = zone

\* The zone of the table nearest by meridian to the longitude.
NearestByMeridian(longitude) ==
  CHOOSE zone \in { SWEREF99_ZONES[i] : i \in 1..Len(SWEREF99_ZONES) } :
    \A i \in 1..Len(SWEREF99_ZONES) :
      \/ Abs(zone.centralMeridian - longitude)
           < Abs(SWEREF99_ZONES[i].centralMeridian - longitude)
      \/ /\ Abs(zone.centralMeridian - longitude)
              = Abs(SWEREF99_ZONES[i].centralMeridian - longitude)
         /\ TableIndex(zone) <= i

\* Several zone candidates were found and a zone was selected.
SeveralZonesRanked ==
  /\ detectResult # NotDetected
  /\ Cardinality(MatchingZoneIndexes(detectInput.easting, detectInput.northing)) >= 2
  /\ detectResult.projection.type = "zone"

\* C26 as stated: with a known map longitude the zone candidates are
\* returned in the order of the absolute difference between their central
\* meridian and the central meridian of the zone nearest to the map
\* longitude; with no longitude they are returned in table order.
C26_RankedByNearestMeridian ==
  LET Ordered(ranked, meridian) ==
        \A p \in 1..Len(ranked), q \in 1..Len(ranked) :
          p < q => Abs(ranked[p].centralMeridian - meridian)
                     <= Abs(ranked[q].centralMeridian - meridian)
      Ranked(longitude) ==
        IF longitude = NoLon
          THEN RankedZones(detectResult)
                 = findMatchingZones(detectInput.easting, detectInput.northing)
        ELSE Ordered(RankedZones(detectResult),
                     NearestByMeridian(longitude).centralMeridian)
  IN  SeveralZonesRanked => Ranked(getLonFromPoint(detectInput.mapCenter))

\* C26, amended: with a map longitude that is known and not 0 the zone
\* candidates are returned in the order of the absolute difference between
\* their central meridian and the map longitude, candidates at the same
\* distance in table order, so the zone nearest to the longitude comes
\* first; with no longitude, and with a longitude of exactly 0, they are
\* returned in table order.
C26_RankedByLongitude ==
  LET Before(a, b, longitude) ==
        \/ Abs(a.centralMeridian - longitude) < Abs(b.centralMeridian - longitude)
        \/ /\ Abs(a.centralMeridian - longitude) = Abs(b.centralMeridian - longitude)
           /\ TableIndex(a) < TableIndex(b)
      Ordered(ranked, longitude) ==
        /\ \A p \in 1..Len(ranked), q \in 1..Len(ranked) :
             p < q => Before(ranked[p], ranked[q], longitude)
        /\ ranked[1] = NearestByMeridian(longitude)
        /\ { TableIndex(ranked[p]) : p \in 1..Len(ranked) }
             = MatchingZoneIndexes(detectInput.easting, detectInput.northing)
      Ranked(longitude) ==
        IF longitude = NoLon \/ longitude = 0
          THEN RankedZones(detectResult)
                 = findMatchingZones(detectInput.easting, detectInput.northing)
        ELSE Ordered(RankedZones(detectResult), longitude)
  IN  SeveralZonesRanked => Ranked(getLonFromPoint(detectInput.mapCenter))

\* A map longitude of 12.9 degrees: zone 13 30 is selected and zone 12 00,
\* 0.9 degrees from the longitude, is the first alternative, before zone
\* 14 15, which is nearer to the meridian of zone 13 30.
C26_Witness ==
  /\ SeveralZonesRanked
  /\ getLonFromPoint(detectInput.mapCenter) = 1290
  /\ detectResult.projection = SWEREF99_ZONES[2]
  /\ detectResult.alternatives[1] = SWEREF99_ZONES[1]
  /\ detectResult.alternatives[2] = SWEREF99_ZONES[6]

(***************************************************************************)
(* The numeric normalizer on its own.                                      *)
(***************************************************************************)
MaxSeparators == 3

DigitGroups == { << "1" >>, << "5", "6" >>, << "2", "3", "4" >> }

\* Groups of digits joined by k separators, each "." or ",".
RECURSIVE GroupedTexts(_)
GroupedTexts(k) ==
  IF k = 0 THEN DigitGroups
  ELSE { t \o << sep >> \o g :
           t \in GroupedTexts(k - 1), sep \in { ".", "," }, g \in DigitGroups }

\* Grouped digits with and without a sign, and texts with spaces, a plus
\* sign, a unit, an edge separator, a run of separators and no digit.
NormalizeInputs ==
  { sign \o t : sign \in { << >>, << "-" >> },
                t \in UNION { GroupedTexts(k) : k \in 0..MaxSeparators } }
  \cup { << "6", ",", "5", "8", "0", ",", "8", "2", "2", ".", "5" >>,
         << "6", " ", "5", "8", "0", " ", "8", "2", "2", ",", "5" >>,
         << "1", "2", " ", "3", "4" >>,
         << "6", "NBSP", "5", "0", "0", "NBSP", "0", "0", "0" >>,
         << "+", "1", ".", "5" >>,
         << "1", "2", ",", "5", "m" >>,
         << ".", "5" >>,
         << "1", ".", ".", "5" >>,
         << "5", "," >>,
         << "m" >>,
         << >> }

\* normalizeNumericString has not run: a text it never returns.
NotNormalized == << "pending" >>

InitNormalize ==
  /\ Idle("normalize")
  /\ normalizeInput \in NormalizeInputs
  /\ normalizeResult = NotNormalized

\* normalizeResult = normalizeNumericString(raw)
Normalize ==
  /\ normalizeResult = NotNormalized
  /\ normalizeResult' = normalizeNumericString(normalizeInput)
  /\ UNCHANGED << normalizeInput, engineVars, parseVars, sanitizeVars,
                  detectVars, validateVars, storeVars, axisVars >>

SpecNormalize == InitNormalize /\ [][Normalize]_vars

\* A text of digits and "." or "," separators, after an optional "-", with
\* a digit first, a digit last and a digit between any two separators.
IsSeparatedNumber(t) ==
  /\ t # << >>
  /\ \A i \in 1..Len(t) : IsDigit(t[i]) \/ t[i] \in { ".", "," }
  /\ IsDigit(t[1]) /\ IsDigit(t[Len(t)])
  /\ \A i \in 1..(Len(t) - 1) : IsDigit(t[i]) \/ IsDigit(t[i + 1])

\* The positions of the separators of a text.
SeparatorsOf(t) == { i \in 1..Len(t) : t[i] \in { ".", "," } }

\* The separator at position i is not the last one and exactly three digits
\* stand between it and the next separator.
ThreeDigitsFollow(t, i) ==
  \E j \in SeparatorsOf(t) :
    /\ j = i + 4
    /\ \A m \in (i + 1)..(j - 1) : IsDigit(t[m])

\* The last separator read as the decimal point, the earlier ones dropped.
LastIsDecimal(t) ==
  Without(Take(t, LastIndexIn(t, { ".", "," }) - 1), { ".", "," })
    \o << "." >> \o Drop(t, LastIndexIn(t, { ".", "," }))

\* C27: normalizeNumericString reads the "." and "," of a number so: with
\* none the digits are returned as they are; with exactly one, of either
\* glyph, it is the decimal point; with more than one the last separator is
\* the decimal point and the earlier ones are dropped as grouping, unless
\* exactly three digits follow an earlier separator, when all separators may
\* be grouping and the result has no decimal part.
C27_SeparatorReading ==
  LET Readings(t) ==
        IF Cardinality(SeparatorsOf(t)) = 0 THEN { t }
        ELSE IF Cardinality(SeparatorsOf(t)) = 1 THEN { LastIsDecimal(t) }
        ELSE IF \E i \in SeparatorsOf(t) : ThreeDigitsFollow(t, i)
          THEN { LastIsDecimal(t), Without(t, { ".", "," }) }
        ELSE { LastIsDecimal(t) }
      Read(sign, t) ==
        IsSeparatedNumber(t) => normalizeResult \in { sign \o r : r \in Readings(t) }
  IN  (normalizeResult # NotNormalized /\ normalizeInput # << >>) =>
        IF Head(normalizeInput) = "-"
          THEN Read(<< "-" >>, Tail(normalizeInput))
        ELSE Read(<< >>, normalizeInput)

\* "6,580,822.5", two grouping commas and a decimal point, has been
\* rejected.
C27_Witness ==
  /\ normalizeInput = << "6", ",", "5", "8", "0", ",", "8", "2", "2", ".", "5" >>
  /\ normalizeResult = << >>

\* C28: in every store state reached from the default state by search
\* actions, no widget is searching while it holds an error message.
C28_NoErrorWhileSearching ==
  \A widgetId \in Widgets :
    ~ (/\ store.byId[widgetId].isSearching
       /\ store.byId[widgetId].errorMessage # NoErrorMessage)

\* A widget has just been set to searching and holds no error message,
\* while the other widget holds one.
C28_Witness ==
  /\ lastAction.type = "SetSearching"
  /\ lastAction.widgetId = "widget-1"
  /\ store.byId["widget-1"].isSearching
  /\ store.byId["widget-1"].errorMessage = NoErrorMessage
  /\ store.byId["widget-2"].errorMessage = "searchError"

\* C29: all zones of the table have the same bounds, so the zone candidates
\* of a pair are none or all twelve zones: the rule for exactly one zone
\* candidate never applies, and a zone is returned with confidence 1.0
\* only under the preference for zones.
C29_ZonesAllOrNone ==
  LET Candidates(easting, northing) ==
        IF isInRange(easting, ZONE_EASTING_MIN, ZONE_EASTING_MAX)
          THEN findMatchingZones(easting, northing) ELSE << >>
      AllOrNone(candidates) ==
        /\ candidates = << >> \/ candidates = SWEREF99_ZONES
        /\ Len(candidates) # 1
  IN  /\ Len(SWEREF99_ZONES) = 12
      /\ \A i \in 1..Len(SWEREF99_ZONES) :
           SWEREF99_ZONES[i].bounds = SWEREF99_ZONES[1].bounds
      /\ AllOrNone(findMatchingZones(detectInput.easting, detectInput.northing))
      /\ AllOrNone(Candidates(detectInput.easting, detectInput.northing))
      /\ (/\ detectResult # NotDetected
          /\ detectResult.projection.type = "zone"
          /\ detectResult.confidence = 100)
         => detectInput.preference = "zone"

\* A pair inside the bounds of the zones has been detected with no
\* preference: the nearest of the twelve zones is returned with a confidence
\* of 0.85 and the other eleven as alternatives.
C29_Witness ==
  /\ detectInput.preference = "auto"
  /\ detectInput.easting = Int2Num(150000)
  /\ detectInput.northing = Int2Num(6500000)
  /\ detectResult.projection.type = "zone"
  /\ detectResult.confidence = 85
  /\ Len(detectResult.alternatives) = 11

\* C30: the easting range ends below the start of the northing range, so no
\* number is easting-valid and northing-valid at once: detectAxisOrder
\* never attaches coordinateWarningAmbiguousOrder, and a successful parse
\* carries no warning.
C30_NoAmbiguousOrderWarning ==
  /\ MAX_EASTING < MIN_NORTHING
  /\ \A pair \in AxisInputs :
       /\ ~ (/\ isInRange(pair.first, MIN_EASTING, MAX_EASTING)
             /\ isInRange(pair.first, MIN_NORTHING, MAX_NORTHING))
       /\ detectAxisOrder(pair.first, pair.second).warning = NoWarning
  /\ parseResult.success => parseResult.warning = NoWarning

\* Two numbers have been parsed, the northing first: the resolver has
\* swapped them and the result carries no warning.
C30_Witness ==
  /\ parseInput = JoinedWith(<< NatText(6500000), NatText(500000) >>, << " " >>)
  /\ parseResult.success
  /\ parseResult.easting = Int2Num(500000)
  /\ parseResult.northing = Int2Num(6500000)
  /\ parseResult.warning = NoWarning
====
